---- MODULE Spec2Model ----
(***************************************************************************)
(* Point-in-time sector backtest (backend/main.py) and the percentile      *)
(* factor scorer (backend/factor_scoring.py).                              *)
(*                                                                         *)
(* Numbers.  Python floats are modelled as exact rationals <<n, d>> with   *)
(* d > 0 in lowest terms; Python's None is the empty tuple.  Dates are     *)
(* integers that keep the calendar order (YYYYMMDD, or a day number where  *)
(* days are subtracted).                                                   *)
(***************************************************************************)
EXTENDS Integers, Sequences, FiniteSets, TLC

VARIABLES
    pc,               \* which operation the process is in
    peer_values,      \* percentile_rank: the peer list of the calls
    higher_is_better, \* percentile_rank: the direction of the calls
    ranked,           \* percentile_rank: value -> percentile, one entry per call made
    ratios,           \* calculate_valuation_factor: component -> ratio or None
    peers,            \* calculate_valuation_factor: component -> peer list
    weights,          \* calculate_valuation_factor: component -> caller weight or None
    valuation,        \* calculate_valuation_factor: the calls made, each with its returned dict
    as_of,            \* the rebalance date of the point
    end_date,         \* as_of shifted by the holding period
    sym_splits,       \* the selected symbol's split events, by date
    sym_dividends,    \* the selected symbol's dividend events, by date
    sp,               \* the symbol's close at as_of (start price)
    ep,               \* the symbol's close at end_date, or None
    row,              \* the symbol's entry of selected_with_returns, or None
    stock_statement,  \* the rows of the remote stock_statement table
    cutoff,           \* the cutoff date of the fundamentals query
    aligned,          \* symbol -> aligned fundamentals, as the query returned them
    stock_prices,             \* the rows of the remote stock_prices table
    stock_shares_outstanding, \* the rows of the remote stock_shares_outstanding table
    stock_split_events,       \* the rows of the remote stock_split_events table
    stock_dividend_events,    \* the rows of the remote stock_dividend_events table
    payload,          \* the BacktestSectorRequest of the runs
    runs,             \* the point of each run of backtest_sector made, in order
    candidate,        \* the values the records loop read for the symbol at hand
    universe_records, \* the candidate records of the rebalance point
    filters,          \* payload.filters, or the rule and metrics of one rule test
    kept_records,     \* the records a filter kept, or the outcome of one rule test
    scored_list,      \* the scored entries of the filtered records, in input order
    selected_list,    \* scored_list, sorted and cut to top_n
    today,            \* the day of the request
    min_stmt,         \* _min_annual_statement_date(), or None
    as_of_dates,      \* the calendar of the request
    points,           \* the points appended so far (data[] of the response)
    summary,          \* the summary of the response, or None before it is built
    etf_prices,       \* the benchmark's series of _load_etf_prices(), by date
    win_count,        \* backtest_sector.win_count
    valid_point_count, \* backtest_sector.valid_point_count
    turn,             \* the position of the loop over as_of_dates
    max_attempts,     \* _duckdb_query_with_retry: the bound on the attempts
    attempt,          \* _duckdb_query_with_retry: the attempts made so far
    last_exc,         \* _duckdb_query_with_retry: the last exception caught, or None
    sleeps,           \* _duckdb_query_with_retry: the delays slept, in order
    query_outcome,    \* _duckdb_query_with_retry: None, the result returned or the error raised
    lookups,          \* the remote lookups a request issued, in order
    response,         \* the response of the request, or None before it is sent
    backtest_rule_search,  \* the rows of data/backtest_rule_search.json
    _BACKTEST_RULES_CACHE, \* main._BACKTEST_RULES_CACHE
    rules_query,      \* the parameters of the last call of get_backtest_rules
    rules_response,   \* what that call returned
    served            \* the number of calls of get_backtest_rules served

vars == <<pc, peer_values, higher_is_better, ranked, ratios, peers, weights, valuation,
          as_of, end_date, sym_splits, sym_dividends, sp, ep, row,
          stock_statement, cutoff, aligned,
          stock_prices, stock_shares_outstanding, stock_split_events, stock_dividend_events,
          payload, runs, candidate, universe_records, filters, kept_records, scored_list,
          selected_list,
          today, min_stmt, as_of_dates, points, summary, etf_prices, win_count,
          valid_point_count, turn,
          max_attempts, attempt, last_exc, sleeps, query_outcome, lookups, response,
          backtest_rule_search, _BACKTEST_RULES_CACHE, rules_query, rules_response, served>>

rankVars == <<peer_values, higher_is_better, ranked>>
valuationVars == <<ratios, peers, weights, valuation>>
returnVars == <<as_of, end_date, sym_splits, sym_dividends, sp, ep, row>>
statementVars == <<stock_statement, cutoff, aligned>>
marketVars == <<stock_prices, stock_shares_outstanding, stock_split_events,
                stock_dividend_events, payload, runs>>
screenVars == <<candidate, universe_records, filters, kept_records, scored_list, selected_list>>
calendarVars == <<today, min_stmt, as_of_dates, points, summary, etf_prices, win_count,
                  valid_point_count, turn>>
serviceVars == <<max_attempts, attempt, last_exc, sleeps, query_outcome, lookups, response>>
rulesVars == <<backtest_rule_search, _BACKTEST_RULES_CACHE, rules_query, rules_response, served>>

-----------------------------------------------------------------------------
(* Exact arithmetic standing for Python floats *)

None == <<>>

Abs(n) == IF n < 0 THEN -n ELSE n

RECURSIVE GCD(_, _)
GCD(a, b) == IF b = 0 THEN a ELSE GCD(b, a % b)

\* n/d in lowest terms with a positive denominator (d # 0)
Rat(n, d) ==
    LET s == IF d < 0 THEN -1 ELSE 1
        g == GCD(Abs(n), Abs(d))
    IN  <<(s * n) \div g, (s * d) \div g>>

R(n) == <<n, 1>>

RAdd(a, b) == Rat(a[1] * b[2] + b[1] * a[2], a[2] * b[2])
RSub(a, b) == Rat(a[1] * b[2] - b[1] * a[2], a[2] * b[2])
RMul(a, b) == Rat(a[1] * b[1], a[2] * b[2])
RDiv(a, b) == Rat(a[1] * b[2], a[2] * b[1])
RLt(a, b) == a[1] * b[2] < b[1] * a[2]
RLe(a, b) == a[1] * b[2] <= b[1] * a[2]
RMax(a, b) == IF RLt(a, b) THEN b ELSE a
RMin(a, b) == IF RLt(b, a) THEN b ELSE a

RECURSIVE RSum(_)
RSum(s) == IF s = <<>> THEN R(0) ELSE RAdd(Head(s), RSum(Tail(s)))

\* round(x, 1) for x >= 0: the nearest tenth, a tie going to the even tenth
Round1(x) ==
    LET q == (10 * x[1]) \div x[2]
        r == (10 * x[1]) % x[2]
        t == IF 2 * r < x[2] THEN q
             ELSE IF 2 * r > x[2] THEN q + 1
             ELSE IF q % 2 = 0 THEN q ELSE q + 1
    IN  Rat(t, 10)

\* the sequences over S of length at most n
SeqsUpTo(S, n) == UNION {[1..k -> S] : k \in 0..n}

-----------------------------------------------------------------------------
(* factor_scoring.percentile_rank *)

RECURSIVE valid_peers(_)
valid_peers(ps) ==
    IF ps = <<>> THEN <<>>
    ELSE IF Head(ps) = None THEN valid_peers(Tail(ps))
    ELSE <<Head(ps)>> \o valid_peers(Tail(ps))

\* a worse_count that also counts the peers equal to the value
RECURSIVE worse_count_nonstrict(_, _, _)
worse_count_nonstrict(ps, v, hib) ==
    IF ps = <<>> THEN 0
    ELSE (IF (IF hib THEN RLe(Head(ps), v) ELSE RLe(v, Head(ps))) THEN 1 ELSE 0)
         + worse_count_nonstrict(Tail(ps), v, hib)

\* a worse_count with the two directions exchanged
RECURSIVE worse_count_swapped(_, _, _)
worse_count_swapped(ps, v, hib) ==
    IF ps = <<>> THEN 0
    ELSE (IF (IF hib THEN RLt(v, Head(ps)) ELSE RLt(Head(ps), v)) THEN 1 ELSE 0)
         + worse_count_swapped(Tail(ps), v, hib)

\* a worse_count that takes peers within 1 of the value as equal to it
RECURSIVE worse_count_tolerant(_, _, _)
worse_count_tolerant(ps, v, hib) ==
    IF ps = <<>> THEN 0
    ELSE (IF (IF hib THEN RLt(RAdd(Head(ps), R(1)), v) ELSE RLt(RAdd(v, R(1)), Head(ps)))
          THEN 1 ELSE 0)
         + worse_count_tolerant(Tail(ps), v, hib)

RECURSIVE worse_count(_, _, _)
worse_count(ps, v, hib) ==
    IF ps = <<>> THEN 0
    ELSE (IF (IF hib THEN RLt(Head(ps), v) ELSE RLt(v, Head(ps))) THEN 1 ELSE 0)
         + worse_count(Tail(ps), v, hib)

percentile_rank(v, ps, hib) ==
    IF ps = <<>> \/ v = None THEN R(50)
    ELSE LET valid == valid_peers(ps)
         IN  IF valid = <<>> THEN R(50)
             ELSE LET percentile == RMul(Rat(worse_count(valid, v, hib), Len(valid)), R(100))
                  IN  RMin(R(100), RMax(R(0), percentile))

-----------------------------------------------------------------------------
(* factor_scoring.calculate_valuation_factor *)

Components == <<"pe", "ps", "pb", "ev_ebit", "ev_ebitda", "ev_sales">>
ComponentNames == {Components[i] : i \in DOMAIN Components}

\* Python truth of an Optional[float]: neither None nor zero
Truthy(x) == x # None /\ x[1] # 0

_interpret_score(score) ==
    IF score = None THEN "insufficient_data"
    ELSE IF RLe(R(75), score) THEN "excellent"
    ELSE IF RLe(R(60), score) THEN "above_average"
    ELSE IF RLe(R(40), score) THEN "average"
    ELSE IF RLe(R(25), score) THEN "below_average"
    ELSE "poor"

\* lines 64-103: a component is scored when its ratio and its peer list are truthy
component_scores(rt, pr) ==
    [k \in ComponentNames |->
        IF Truthy(rt[k]) /\ pr[k] # <<>> THEN percentile_rank(rt[k], pr[k], FALSE) ELSE None]

\* the names with a score, in the order of the dict
active_components(cs) == SelectSeq(Components, LAMBDA k : cs[k] # None)

\* lines 143-144: round(overall_score, 1) if overall_score else None
returned_score(overall_score) ==
    IF overall_score[1] # 0 THEN Round1(overall_score) ELSE None

\* line 132: max(0.0, float(raw_weights.get(k, 0.0)))
active_weight(raw_weight) == RMax(R(0), raw_weight)

calculate_valuation_factor(rt, pr, w) ==
    LET cs == component_scores(rt, pr)
        active == active_components(cs)
        scores == [i \in DOMAIN active |-> cs[active[i]]]
        \* line 126: the defaults (1.0 each) overridden by the caller's weights
        raw_weights == [k \in ComponentNames |-> IF w[k] # None THEN w[k] ELSE R(1)]
        active_weight_items == [i \in DOMAIN active |-> active_weight(raw_weights[active[i]])]
        weight_sum == RSum(active_weight_items)
    IN  IF scores = <<>> THEN
            [score |-> None, component_count |-> 0, components |-> cs,
             weights |-> None, interpretation |-> "insufficient_data"]
        ELSE
            LET degenerate == RLe(weight_sum, R(0))
                normalized == [i \in DOMAIN active |-> RDiv(active_weight_items[i], weight_sum)]
                overall_score ==
                    IF degenerate THEN RDiv(RSum(scores), R(Len(scores)))
                    ELSE RSum([i \in DOMAIN active |-> RMul(scores[i], normalized[i])])
            IN  [score |-> returned_score(overall_score),
                 component_count |-> Len(scores),
                 components |-> cs,
                 weights |-> IF degenerate THEN None
                             ELSE [k \in {active[i] : i \in DOMAIN active} |->
                                      normalized[CHOOSE i \in DOMAIN active : active[i] = k]],
                 interpretation |-> IF overall_score[1] # 0 THEN _interpret_score(overall_score)
                                    ELSE "insufficient_data"]

-----------------------------------------------------------------------------
(* main._split_factor_between, main._split_adjusted_dividends and the return of
   a selected symbol (backtest_sector, lines 2926-2961) *)

\* a window test that lets in an event dated on start
in_window_from_start(d, start, end) == start <= d /\ d <= end

\* start < d <= end
in_window(d, start, end) == start < d /\ d <= end

RECURSIVE _split_factor_between(_, _, _)
_split_factor_between(events, start, end) ==
    IF events = <<>> THEN R(1)
    ELSE LET ev == Head(events)
             rest == _split_factor_between(Tail(events), start, end)
         IN  IF in_window(ev.date, start, end) /\ Truthy(ev.factor) /\ RLt(R(0), ev.factor)
             THEN RMul(ev.factor, rest)
             ELSE rest

\* the share count at a dividend taken from the splits dated before its day
shares_at_div_before(split_events, start, d) == _split_factor_between(split_events, start, d - 1)

\* line 1281: the share count at a dividend dated d
shares_at_div(split_events, start, d) == _split_factor_between(split_events, start, d)

RECURSIVE _split_adjusted_dividends(_, _, _, _)
_split_adjusted_dividends(dividend_events, split_events, start, end) ==
    IF dividend_events = <<>> THEN R(0)
    ELSE LET div == Head(dividend_events)
             rest == _split_adjusted_dividends(Tail(dividend_events), split_events, start, end)
         IN  IF ~in_window(div.date, start, end) THEN rest
             ELSE RAdd(RMul(div.amount, shares_at_div(split_events, start, div.date)), rest)

\* an end price divided by the split factor
adjusted_end_price_divided(end_price, split_factor) ==
    IF end_price # None /\ Truthy(split_factor) /\ RLt(R(0), split_factor)
    THEN RDiv(end_price, split_factor) ELSE end_price

\* line 2942: the end price on the share basis of the start price
adjusted_end_price(end_price, split_factor) ==
    IF end_price # None /\ Truthy(split_factor) /\ RLt(R(0), split_factor)
    THEN RMul(end_price, split_factor) ELSE end_price

\* lines 2936-2957: one entry of selected_with_returns
selected_return(start_price, end_price, splits, dividends, start, end) ==
    LET split_factor == _split_factor_between(splits, start, end)
        ep_adj == adjusted_end_price(end_price, split_factor)
        div == _split_adjusted_dividends(dividends, splits, start, end)
        tr == IF start_price # None /\ ep_adj # None /\ RLt(R(0), start_price)
              THEN RSub(RDiv(RAdd(ep_adj, div), start_price), R(1))
              ELSE None
    IN  [total_return |-> tr,
         dividends |-> div,
         split_factor |-> IF split_factor # R(1) THEN split_factor ELSE None]

-----------------------------------------------------------------------------
(* main._query_latest_annual_items_aligned: the SQL of lines 1387-1423 and the
   loop that folds its rows into one slot per symbol.  A row of stock_statement
   is [symbol, ttm, report_date, period_type, finance_type, item_name,
   item_value]; ttm stands for the text 'TTM' in the report_date column, and
   report_date is a day number otherwise. *)

Max(S) == CHOOSE x \in S : \A y \in S : y <= x

\* the CTE base: annual, dated (not TTM) rows up to the cutoff of the listed items
base_rows(table, symbols, cut, income_item_names, balance_item_names) ==
    {r \in table :
        /\ r.symbol \in symbols
        /\ r.period_type = "annual"
        /\ ~r.ttm
        /\ r.report_date <= cut
        /\ \/ r.finance_type = "income_statement" /\ r.item_name \in income_item_names
           \/ r.finance_type = "balance_sheet" /\ r.item_name \in balance_item_names}

\* the CTE candidates: HAVING count(DISTINCT finance_type) = 2
is_candidate(base, sym, d) ==
    Cardinality({r.finance_type : r \in {x \in base : x.symbol = sym /\ x.report_date = d}}) = 2

\* the items of one finance type among the joined rows of a symbol
slot_items(rows, finance_type) ==
    LET of_type == {r \in rows : r.finance_type = finance_type}
    IN  [item \in {r.item_name : r \in of_type} |->
            (CHOOSE r \in of_type : r.item_name = item).item_value]

_query_latest_annual_items_aligned(table, symbols, cut, income_item_names, balance_item_names) ==
    LET base == base_rows(table, symbols, cut, income_item_names, balance_item_names)
        candidates(sym) == {d \in {r.report_date : r \in base} : is_candidate(base, sym, d)}
        found == {sym \in symbols : candidates(sym) # {}}
        latest(sym) == Max(candidates(sym))
        joined(sym) == {r \in base : r.symbol = sym /\ r.report_date = latest(sym)}
    IN  [sym \in found |->
            [report_date |-> latest(sym),
             income_items |-> slot_items(joined(sym), "income_statement"),
             balance_items |-> slot_items(joined(sym), "balance_sheet")]]

-----------------------------------------------------------------------------
(* The market-data queries of main.py.  A price row is [symbol, report_date,
   close], a shares row [symbol, report_date, shares_outstanding], a split row
   [symbol, report_date, split_factor] and a dividend row [symbol, report_date,
   amount].  The text of a split factor is <<l, r>> for "l:r", <<v>> for a plain
   number and <<>> for an empty one. *)

RECURSIVE OrderByDate(_)
OrderByDate(S) ==
    IF S = {} THEN <<>>
    ELSE LET r == CHOOSE x \in S : \A y \in S : x.report_date <= y.report_date
         IN  <<r>> \o OrderByDate(S \ {r})

\* arg_max(close, report_date) over the rows dated <= day, per symbol
_query_latest_prices(table, symbols, day) ==
    LET rows(sym) == {r \in table : r.symbol = sym /\ r.report_date <= day}
    IN  [sym \in {x \in symbols : rows(x) # {}} |->
            LET latest == CHOOSE r \in rows(sym) : \A y \in rows(sym) : y.report_date <= r.report_date
            IN  [close |-> latest.close, price_date |-> latest.report_date]]

\* arg_max(shares_outstanding, report_date) over the rows dated <= day, per symbol
_query_latest_shares(table, symbols, day) ==
    LET rows(sym) == {r \in table : r.symbol = sym /\ r.report_date <= day}
    IN  [sym \in {x \in symbols : rows(x) # {}} |->
            LET latest == CHOOSE r \in rows(sym) : \A y \in rows(sym) : y.report_date <= r.report_date
            IN  [shares |-> latest.shares_outstanding, shares_date |-> latest.report_date]]

_parse_split_factor(raw) ==
    IF raw = <<>> THEN None
    ELSE IF Len(raw) = 1 THEN (IF raw[1] > 0 THEN R(raw[1]) ELSE None)
    ELSE IF raw[2] = 0 THEN None
    ELSE LET v == Rat(raw[1], raw[2]) IN IF RLt(R(0), v) THEN v ELSE None

\* the parsed split events of each symbol dated in (start, end], by date
_query_split_events(table, symbols, start, end) ==
    [sym \in symbols |->
        LET rows == OrderByDate({r \in table : r.symbol = sym /\ start < r.report_date
                                                /\ r.report_date <= end})
            parsed == [i \in DOMAIN rows |->
                          [date |-> rows[i].report_date,
                           factor |-> _parse_split_factor(rows[i].split_factor)]]
        IN  SelectSeq(parsed, LAMBDA ev : Truthy(ev.factor))]

\* the dividend events of each symbol dated in (start, end], by date
_query_dividend_events(table, symbols, start, end) ==
    [sym \in symbols |->
        LET rows == OrderByDate({r \in table : r.symbol = sym /\ start < r.report_date
                                                /\ r.report_date <= end})
            events == [i \in DOMAIN rows |->
                          [date |-> rows[i].report_date, amount |-> rows[i].amount]]
        IN  SelectSeq(events, LAMBDA ev : ev.amount[1] # 0)]

RECURSIVE _pick_first(_, _)
_pick_first(items, candidates) ==
    IF candidates = <<>> THEN None
    ELSE IF Head(candidates) \in DOMAIN items /\ items[Head(candidates)] # None
         THEN items[Head(candidates)]
         ELSE _pick_first(items, Tail(candidates))

-----------------------------------------------------------------------------
(* backtest_sector: one rebalance point (the body of the loop, lines 2609-2961) *)

income_items ==
    {"total_revenue", "operating_revenue", "diluted_eps", "basic_eps", "ebit", "ebitda",
     "net_income_common_stockholders", "net_income", "Total Revenue", "Diluted EPS", "EBIT",
     "EBITDA", "Net Income Common Stockholders", "Net Income"}

balance_items ==
    {"total_debt", "long_term_debt_and_capital_lease_obligation",
     "current_debt_and_capital_lease_obligation", "cash_and_cash_equivalents",
     "cash_cash_equivalents_and_short_term_investments", "stockholders_equity",
     "common_stock_equity", "total_equity_gross_minority_interest", "Total Debt",
     "Total Debt & Capital Lease Obligation", "Cash And Cash Equivalents",
     "Cash, Cash Equivalents & Short Term Investments", "Stockholders Equity",
     "Common Stock Equity", "Total Equity Gross Minority Interest"}

\* a cutoff that forgets the reporting lag
fundamentals_cutoff_unlagged(day, lag_days) == day

\* line 2615
fundamentals_cutoff(day, lag_days) == day - lag_days

\* lines 2631-2650: revenue plus EPS or net income must be known
is_eligible(fundamentals, sym) ==
    /\ sym \in DOMAIN fundamentals
    /\ DOMAIN fundamentals[sym].income_items # {}
    /\ _pick_first(fundamentals[sym].income_items,
                   <<"total_revenue", "Total Revenue", "operating_revenue",
                     "Operating Revenue">>) # None
    /\ _pick_first(fundamentals[sym].income_items,
                   <<"diluted_eps", "Diluted EPS", "net_income_common_stockholders",
                     "Net Income Common Stockholders", "net_income", "Net Income">>) # None

\* x / y when y is known and positive (and x known), else None
ratio_raw(x, y) == IF x # None /\ y # None /\ RLt(R(0), y) THEN RDiv(x, y) ELSE None
\* a known ratio kept whatever its sign
positive_only_signed(x) == x

\* a ratio kept only when positive
positive_only(x) == IF x # None /\ RLt(R(0), x) THEN x ELSE None
\* Python's (x or 0.0)
or_zero(x) == IF Truthy(x) THEN x ELSE R(0)

\* lines 2687-2778: the record of a symbol with a positive price and share count
build_record(sym, p, sh, inc_items, bal_items) ==
    LET diluted_eps == _pick_first(inc_items, <<"diluted_eps", "Diluted EPS", "basic_eps", "Basic EPS">>)
        revenue == _pick_first(inc_items, <<"total_revenue", "Total Revenue", "operating_revenue",
                                            "Operating Revenue">>)
        ebit == _pick_first(inc_items, <<"ebit", "EBIT">>)
        ebitda == _pick_first(inc_items, <<"ebitda", "EBITDA">>)
        equity == _pick_first(bal_items, <<"stockholders_equity", "Stockholders Equity",
                                           "common_stock_equity", "Common Stock Equity",
                                           "total_equity_gross_minority_interest",
                                           "Total Equity Gross Minority Interest">>)
        cash == _pick_first(bal_items, <<"cash_cash_equivalents_and_short_term_investments",
                                         "Cash, Cash Equivalents & Short Term Investments",
                                         "cash_and_cash_equivalents", "Cash And Cash Equivalents">>)
        debt == _pick_first(bal_items, <<"total_debt", "Total Debt",
                                         "long_term_debt_and_capital_lease_obligation",
                                         "current_debt_and_capital_lease_obligation",
                                         "Total Debt & Capital Lease Obligation">>)
        market_cap == RMul(p, sh)
        ev == IF debt # None \/ cash # None
              THEN RSub(RAdd(market_cap, or_zero(debt)), or_zero(cash)) ELSE None
        pe_raw == ratio_raw(p, diluted_eps)
        ps_raw == ratio_raw(market_cap, revenue)
        pb_raw == ratio_raw(market_cap, equity)
        ev_ebit_raw == ratio_raw(ev, ebit)
        ev_ebitda_raw == ratio_raw(ev, ebitda)
        ev_sales_raw == ratio_raw(ev, revenue)
    IN  [symbol |-> sym, price |-> p, shares |-> sh, market_cap |-> market_cap,
         pe |-> positive_only(pe_raw), pe_raw |-> pe_raw,
         ps |-> positive_only(ps_raw), ps_raw |-> ps_raw,
         pb |-> positive_only(pb_raw), pb_raw |-> pb_raw,
         ev_ebit |-> positive_only(ev_ebit_raw), ev_ebit_raw |-> ev_ebit_raw,
         ev_ebitda |-> positive_only(ev_ebitda_raw), ev_ebitda_raw |-> ev_ebitda_raw,
         ev_sales |-> positive_only(ev_sales_raw), ev_sales_raw |-> ev_sales_raw]

\* statistics.fmean and statistics.median of a non-empty list
fmean(values) == RDiv(RSum(values), R(Len(values)))

RECURSIVE SortedAscending(_)
SortedAscending(values) ==
    IF values = <<>> THEN <<>>
    ELSE LET rest == SortedAscending(Tail(values))
             below == SelectSeq(rest, LAMBDA x : RLt(x, Head(values)))
             above == SelectSeq(rest, LAMBDA x : ~RLt(x, Head(values)))
         IN  below \o <<Head(values)>> \o above

median(values) ==
    LET sorted == SortedAscending(values)
        n == Len(sorted)
    IN  IF n % 2 = 1 THEN sorted[(n + 1) \div 2]
        ELSE RDiv(RAdd(sorted[n \div 2], sorted[n \div 2 + 1]), R(2))

\* lines 2829-2834: the known values of a metric over the cap-filtered records
peer_list(recs, metric) ==
    LET values == [i \in DOMAIN recs |-> recs[i][metric]]
    IN  SelectSeq(values, LAMBDA v : v # None)

\* lines 2852-2872, with the means and medians of lines 2841-2850
_passes_fundamental_rules(rec, fundamental_rules, cap_filtered_records) ==
    \A i \in DOMAIN fundamental_rules :
        LET rule == fundamental_rules[i]
            val == rec[rule.metric]
            values == peer_list(cap_filtered_records, rule.metric)
        IN  /\ val # None
            /\ rule.operator = "gt_zero" => RLt(R(0), val)
            /\ rule.operator = "lt_mean" => (values # <<>> /\ RLt(val, fmean(values)))
            /\ rule.operator = "lt_median" => (values # <<>> /\ RLt(val, median(values)))

\* lines 2874-2884: the built-in rules of the backtest
passes_rules(rec, rules, mean_pe, cap_filtered_records) ==
    /\ ~(rules.pe_positive /\ (rec.pe = None \/ RLe(rec.pe, R(0))))
    /\ ~(rules.pe_below_universe_mean /\ mean_pe # None
         /\ (rec.pe = None \/ RLe(mean_pe, rec.pe)))
    /\ _passes_fundamental_rules(rec, rules.fundamental_rules, cap_filtered_records)

\* a sort key that is (score or 0.0) alone
key_less_by_score(a, b) == RLt(or_zero(a.valuation_score), or_zero(b.valuation_score))

\* the sort key (score is not None, score or 0.0) of line 2920, compared
key_less(a, b) ==
    LET ka == IF a.valuation_score # None THEN <<1, a.valuation_score>> ELSE <<0, R(0)>>
        kb == IF b.valuation_score # None THEN <<1, b.valuation_score>> ELSE <<0, R(0)>>
    IN  ka[1] < kb[1] \/ (ka[1] = kb[1] /\ RLt(ka[2], kb[2]))

\* lines 2919-2922: a stable sort, the greatest key first
RECURSIVE sort_scored(_)
sort_scored(scored) ==
    IF scored = <<>> THEN <<>>
    ELSE LET rest == sort_scored(Tail(scored))
             above == SelectSeq(rest, LAMBDA x : key_less(Head(scored), x))
             below == SelectSeq(rest, LAMBDA x : ~key_less(Head(scored), x))
         IN  above \o <<Head(scored)>> \o below

\* lines 2886-2917: the scored entry of a filtered record
score_record(rec, cap_filtered_records, caller_weights) ==
    LET valuation_of == calculate_valuation_factor(
            [k \in ComponentNames |-> rec[k]],
            [k \in ComponentNames |-> peer_list(cap_filtered_records, k)],
            caller_weights)
    IN  [symbol |-> rec.symbol,
         valuation_score |-> valuation_of.score,
         valuation_components |-> valuation_of.components,
         ratios |-> [k \in ComponentNames |->
                        rec[CASE k = "pe" -> "pe_raw" [] k = "ps" -> "ps_raw"
                              [] k = "pb" -> "pb_raw" [] k = "ev_ebit" -> "ev_ebit_raw"
                              [] k = "ev_ebitda" -> "ev_ebitda_raw"
                              [] OTHER -> "ev_sales_raw"]]]

get_close(price_map, sym) == IF sym \in DOMAIN price_map THEN price_map[sym].close ELSE None
get_shares(shares_map, sym) == IF sym \in DOMAIN shares_map THEN shares_map[sym].shares ELSE None

-----------------------------------------------------------------------------
(* main._filter_records_by_cap (lines 1539-1561).  Money is in millions of
   dollars, so that the thresholds fit the integers of the checker; the cap ""
   stands for an unset cap (None), which Python tests the same way. *)

LARGE_CAP == 10000
MID_CAP == 2000
SMALL_CAP == 300

\* buckets whose lower bounds are exclusive
_bucket_strict(market_cap) ==
    IF market_cap = None THEN "None"
    ELSE IF RLt(R(LARGE_CAP), market_cap) THEN "large"
    ELSE IF RLt(R(MID_CAP), market_cap) THEN "mid"
    ELSE IF RLt(R(SMALL_CAP), market_cap) THEN "small"
    ELSE "None"

\* lines 1543-1552; "None" is the bucket None
_bucket(market_cap) ==
    IF market_cap = None THEN "None"
    ELSE IF RLe(R(LARGE_CAP), market_cap) THEN "large"
    ELSE IF RLe(R(MID_CAP), market_cap) THEN "mid"
    ELSE IF RLe(R(SMALL_CAP), market_cap) THEN "small"
    ELSE "None"

_filter_records_by_cap(recs, cap) ==
    IF cap = "" \/ cap = "all" THEN recs
    ELSE SelectSeq(recs, LAMBDA rec : _bucket(rec.market_cap) # "None"
                                      /\ cap = _bucket(rec.market_cap))

-----------------------------------------------------------------------------
(* main._get_metric_value_from_dict, main._matches_custom_rule and
   main._apply_filters_to_records (lines 1487-1599).  A value of type Any is a
   record tagged by kind: "num" (a finite number v), "numtext" (a string that
   float() reads as v), "text" (any other string), "none", "inf", "nan",
   "dict" (items: name -> value), and "list" and "str" (items: the sequence
   that unpacking yields, the characters for a str).  A metric key is the
   sequence of its parts between dots; a key of a metrics dict likewise. *)

Num(v) == [kind |-> "num", v |-> v]
NumText(v) == [kind |-> "numtext", v |-> v]
NoneValue == [kind |-> "none"]
TextValue == [kind |-> "text"]
InfValue == [kind |-> "inf"]
NanValue == [kind |-> "nan"]
DictValue(items) == [kind |-> "dict", items |-> items]
ListValue(items) == [kind |-> "list", items |-> items]
StrValue(items) == [kind |-> "str", items |-> items]

\* float(x) succeeds with a finite result
float_ok(x) == x.kind \in {"num", "numtext"}

\* lines 1491-1495 and 1503-1507: float(value), None unless it is finite
finite_float(x) == IF float_ok(x) THEN x.v ELSE None

_get_metric_value_from_dict(metrics, metric_key) ==
    IF metric_key \in DOMAIN metrics THEN finite_float(metrics[metric_key])
    ELSE IF /\ Len(metric_key) = 2
            /\ <<metric_key[1]>> \in DOMAIN metrics
            /\ metrics[<<metric_key[1]>>].kind = "dict"
         THEN LET parent_obj == metrics[<<metric_key[1]>>].items
              IN  IF metric_key[2] \in DOMAIN parent_obj
                  THEN finite_float(parent_obj[metric_key[2]])
                  ELSE None
         ELSE None

TOLERANCE == Rat(1, 100)

\* an equality test that is exact
within_tolerance_exact(value, x) == value = x

\* lines 1525 and 1527: abs(value - float(rule.value)) < 0.01
within_tolerance(value, x) ==
    LET diff == RSub(value, x)
    IN  RLt(IF RLt(diff, R(0)) THEN RSub(R(0), diff) ELSE diff, TOLERANCE)

\* lines 1529-1534: the unpacking and the conversions raise for a malformed
\* value, and the except clause answers False
matches_between(value, rule_value) ==
    /\ rule_value.kind \in {"list", "str"}
    /\ Len(rule_value.items) = 2
    /\ float_ok(rule_value.items[1])
    /\ RLe(rule_value.items[1].v, value)
    /\ float_ok(rule_value.items[2])
    /\ RLe(value, rule_value.items[2].v)

\* a rule whose value float() reads, for the operators other than between
_matches_custom_rule(metrics, rule) ==
    IF ~rule.enabled THEN TRUE
    ELSE LET value == _get_metric_value_from_dict(metrics, rule.metric)
         IN  IF value = None THEN FALSE
             ELSE CASE rule.operator = "<" -> RLt(value, rule.value.v)
                    [] rule.operator = "<=" -> RLe(value, rule.value.v)
                    [] rule.operator = ">" -> RLt(rule.value.v, value)
                    [] rule.operator = ">=" -> RLe(rule.value.v, value)
                    [] rule.operator = "=" -> within_tolerance(value, rule.value.v)
                    [] rule.operator = "!=" -> ~within_tolerance(value, rule.value.v)
                    [] rule.operator = "between" -> matches_between(value, rule.value)
                    [] OTHER -> TRUE

\* a rule logic that asks for every rule whatever ruleLogic says
_record_matches_all(rec, enabled_rules, logic) ==
    \A i \in DOMAIN enabled_rules : _matches_custom_rule(rec.metrics, enabled_rules[i])

\* lines 1591-1595; rec.metrics is the empty dict when the record has none
_record_matches(rec, enabled_rules, logic) ==
    IF logic = "OR"
    THEN \E i \in DOMAIN enabled_rules : _matches_custom_rule(rec.metrics, enabled_rules[i])
    ELSE \A i \in DOMAIN enabled_rules : _matches_custom_rule(rec.metrics, enabled_rules[i])

\* lines 1564-1599; the text "" stands for None (industry, cap, ruleLogic)
_apply_filters_to_records(recs, screen) ==
    IF screen = None THEN recs
    ELSE LET by_industry ==
                 IF screen.industry # ""
                 THEN SelectSeq(recs, LAMBDA r : r.industry = screen.industry
                                                 \/ r.sector = screen.industry)
                 ELSE recs
             by_cap == _filter_records_by_cap(by_industry, screen.cap)
             enabled_rules == SelectSeq(screen.customRules, LAMBDA r : r.enabled)
             logic == IF screen.ruleLogic # "" THEN screen.ruleLogic ELSE "AND"
         IN  IF enabled_rules # <<>>
             THEN SelectSeq(by_cap, LAMBDA r : _record_matches(r, enabled_rules, logic))
             ELSE by_cap

-----------------------------------------------------------------------------
(* The loop over as_of_dates (lines 2609-3111), one turn written as the chain
   of its steps: each step computes what the code binds next and hands it on.
   The result is the point appended to points, with the loop's lists beside
   it: records, filtered_by_filters, cap_filtered_records and filtered. *)

\* lines 1602-1617: the metrics dict of a record under the screener's keys
_build_backtest_metrics_dict(rec) ==
    LET value_of(x) == IF x = None THEN NoneValue ELSE Num(x)
    IN  (<<"peRatioTTM">> :> value_of(rec.pe))
        @@ (<<"priceToSalesRatioTTM">> :> value_of(rec.ps))
        @@ (<<"priceToBookRatioTTM">> :> value_of(rec.pb))
        @@ (<<"enterpriseValueOverEBITTTM">> :> value_of(rec.ev_ebit))
        @@ (<<"enterpriseValueOverEBITDATTM">> :> value_of(rec.ev_ebitda))
        @@ (<<"enterpriseValueToSalesTTM">> :> value_of(rec.ev_sales))
        @@ (<<"marketCap">> :> value_of(rec.market_cap))

\* lines 2759-2760 and 2793-2794: the record carries the request's sector as
\* its industry and its sector, and its metrics dict
backtest_record(rec, sector) ==
    rec @@ [industry |-> sector, sector |-> sector,
            metrics |-> _build_backtest_metrics_dict(rec)]

\* lines 2800-2808
supported ==
    {<<"peRatioTTM">>, <<"priceToSalesRatioTTM">>, <<"priceToBookRatioTTM">>,
     <<"enterpriseValueOverEBITTTM">>, <<"enterpriseValueOverEBITDATTM">>,
     <<"enterpriseValueToSalesTTM">>, <<"marketCap">>}

\* lines 2797-2814: the metric of every custom rule that is not supported
unsupported_metrics(screen) ==
    IF screen = None THEN <<>>
    ELSE LET dropped == SelectSeq(screen.customRules, LAMBDA r : r.metric \notin supported)
         IN  [i \in DOMAIN dropped |-> dropped[i].metric]

\* filters that keep the rules of every metric
filters_for_backtest_kept(screen) == screen

\* lines 2798-2817: a deep copy of the filters without the unsupported rules
filters_for_backtest(screen) ==
    IF unsupported_metrics(screen) # <<>>
    THEN [screen EXCEPT !.customRules = SelectSeq(@, LAMBDA r : r.metric \in supported)]
    ELSE screen

\* peers that are the records the screener filters kept
cap_filtered_by_filters(recs, screen) == _apply_filters_to_records(recs, screen)

\* lines 2820-2823: the peers are the records of the cap bucket
cap_filtered_records_of(recs, screen) ==
    _filter_records_by_cap(recs, IF screen # None THEN screen.cap ELSE "")

\* lines 3094-3111: the point of a turn that selected; the sorted list of the
\* distinct unsupported metrics is written as their set
point_selected(day, end, screened, filtered, mean_pe, selected_with_returns) ==
    LET per_stock_returns ==
            SelectSeq([i \in DOMAIN selected_with_returns |->
                          selected_with_returns[i].total_return],
                      LAMBDA tr : tr # None)
    IN  [records |-> screened.records,
         filtered_by_filters |-> screened.filtered_by_filters,
         cap_filtered_records |-> screened.cap_filtered_records,
         filtered |-> filtered,
         point |-> [as_of |-> day, end_date |-> end,
                    universe_size |-> Len(screened.records),
                    filtered_by_filters_size |-> Len(screened.filtered_by_filters),
                    filtered_size |-> Len(filtered),
                    mean_pe |-> mean_pe,
                    selected |-> selected_with_returns,
                    portfolio_total_return |->
                        IF per_stock_returns # <<>> THEN fmean(per_stock_returns) ELSE None,
                    unsupported_filter_metrics |->
                        {screened.unsupported_metrics[i] :
                            i \in DOMAIN screened.unsupported_metrics}]]

\* lines 2652-2662 and 2780-2790: the point of a turn without a universe
point_empty(day, end, note) ==
    [records |-> <<>>,
     point |-> [as_of |-> day, end_date |-> end, universe_size |-> 0, selected |-> <<>>,
                note |-> note]]

\* lines 2936-2957: an entry of selected with its return
with_return(entry, ret) ==
    [symbol |-> entry.symbol,
     valuation_score |-> entry.valuation_score,
     valuation_components |-> entry.valuation_components,
     ratios |-> entry.ratios,
     total_return |-> ret.total_return,
     dividends |-> ret.dividends,
     split_factor |-> ret.split_factor]

\* lines 2926-2959: the returns of the selected symbols
point_returns(day, end, screened, filtered, mean_pe, selected, price_map, end_prices, split_events, dividend_events) ==
    point_selected(day, end, screened, filtered, mean_pe,
        [i \in DOMAIN selected |->
            with_return(selected[i],
                        selected_return(get_close(price_map, selected[i].symbol),
                                        get_close(end_prices, selected[i].symbol),
                                        split_events[selected[i].symbol],
                                        dividend_events[selected[i].symbol], day, end))])

\* lines 2924-2934: the queries of the holding period, for the selected symbols
point_holding(db, day, end, screened, filtered, mean_pe, selected, selected_symbols, price_map) ==
    point_returns(day, end, screened, filtered, mean_pe, selected, price_map,
                  _query_latest_prices(db.stock_prices, selected_symbols, end),
                  _query_split_events(db.stock_split_events, selected_symbols, day, end),
                  _query_dividend_events(db.stock_dividend_events, selected_symbols, day, end))

\* line 2923: scored[: int(payload.top_n)]
top_slice(sorted, top_n) ==
    SubSeq(sorted, 1, IF top_n < Len(sorted) THEN top_n ELSE Len(sorted))

\* lines 2919-2923: scored.sort(...) and selected = scored[:top_n]
point_ranked(db, request, day, end, screened, filtered, mean_pe, sorted, price_map) ==
    point_holding(db, day, end, screened, filtered, mean_pe,
                  top_slice(sorted, request.top_n),
                  {sorted[i].symbol : i \in 1..(IF request.top_n < Len(sorted)
                                                THEN request.top_n ELSE Len(sorted))},
                  price_map)

\* lines 2886-2917: every filtered record scored against the cap-filtered peers
point_scored(db, request, day, end, screened, filtered, mean_pe, price_map) ==
    point_ranked(db, request, day, end, screened, filtered, mean_pe,
                 sort_scored([i \in DOMAIN filtered |->
                                 score_record(filtered[i], screened.cap_filtered_records,
                                              request.weights)]),
                 price_map)

\* the rules applied to every record of the universe
point_filtered_from_universe(db, request, day, end, screened, mean_pe, price_map) ==
    point_scored(db, request, day, end, screened,
                 SelectSeq(screened.records,
                           LAMBDA rec : passes_rules(rec, request.rules, mean_pe,
                                                     screened.cap_filtered_records)),
                 mean_pe, price_map)

\* lines 2825-2827 and 2874-2884: the rules, over records_for_rules =
\* filtered_by_filters, against the thresholds of cap_filtered_records
point_filtered(db, request, day, end, screened, mean_pe, price_map) ==
    point_scored(db, request, day, end, screened,
                 SelectSeq(screened.filtered_by_filters,
                           LAMBDA rec : passes_rules(rec, request.rules, mean_pe,
                                                     screened.cap_filtered_records)),
                 mean_pe, price_map)

\* lines 2829 and 2836: mean_pe over the cap-filtered records that have a pe
point_peers(db, request, day, end, screened, price_map) ==
    point_filtered(db, request, day, end, screened,
                   IF peer_list(screened.cap_filtered_records, "pe") # <<>>
                   THEN fmean(peer_list(screened.cap_filtered_records, "pe"))
                   ELSE None,
                   price_map)

\* lines 2796-2823: the screener filters of the request, over the records
point_screened(db, request, day, end, records, screen, price_map) ==
    point_peers(db, request, day, end,
                [records |-> records,
                 filtered_by_filters |-> _apply_filters_to_records(records, screen),
                 cap_filtered_records |-> cap_filtered_records_of(records, screen),
                 unsupported_metrics |-> unsupported_metrics(request.filters)],
                price_map)

\* lines 2780-2790 and 2796-2817
point_records(db, request, day, end, records, price_map) ==
    IF records = <<>>
    THEN point_empty(day, end, "No symbols with sufficient price/shares/fundamentals at this date")
    ELSE point_screened(db, request, day, end, records,
                        filters_for_backtest(request.filters), price_map)

\* lines 2686-2794: a record per eligible symbol with a positive price and share count
point_priced(db, request, day, end, fundamentals, priced, price_map, shares_map) ==
    point_records(db, request, day, end,
                  [i \in DOMAIN priced |->
                      backtest_record(
                          build_record(priced[i], get_close(price_map, priced[i]),
                                       get_shares(shares_map, priced[i]),
                                       fundamentals[priced[i]].income_items,
                                       fundamentals[priced[i]].balance_items),
                          request.sector)],
                  price_map)

\* a test that asks for a price and a share count of any sign
has_price_and_shares_any(price_map, shares_map, sym) ==
    /\ get_close(price_map, sym) # None
    /\ get_shares(shares_map, sym) # None

\* lines 2688-2691: the symbol has a positive price and a positive share count
has_price_and_shares(price_map, shares_map, sym) ==
    /\ get_close(price_map, sym) # None
    /\ get_shares(shares_map, sym) # None
    /\ RLt(R(0), get_close(price_map, sym))
    /\ RLt(R(0), get_shares(shares_map, sym))

point_quoted(db, request, day, end, fundamentals, eligible_symbols, price_map, shares_map) ==
    point_priced(db, request, day, end, fundamentals,
                 SelectSeq(eligible_symbols,
                           LAMBDA sym : has_price_and_shares(price_map, shares_map, sym)),
                 price_map, shares_map)

\* lines 2652-2668: prices as of the day, share counts as of the cutoff
point_eligible(db, request, day, end, cut, fundamentals, eligible_symbols) ==
    IF eligible_symbols = <<>>
    THEN point_empty(day, end,
             "No symbols with annual fundamentals available at this date (after lag cutoff)")
    ELSE point_quoted(db, request, day, end, fundamentals, eligible_symbols,
             _query_latest_prices(db.stock_prices,
                                  {eligible_symbols[i] : i \in DOMAIN eligible_symbols}, day),
             _query_latest_shares(db.stock_shares_outstanding,
                                  {eligible_symbols[i] : i \in DOMAIN eligible_symbols}, cut))

\* lines 2631-2650
point_fundamentals(db, sector_symbols, request, day, end, cut, fundamentals) ==
    point_eligible(db, request, day, end, cut, fundamentals,
                   SelectSeq(sector_symbols, LAMBDA sym : is_eligible(fundamentals, sym)))

\* lines 2615-2624
point_cutoff(db, sector_symbols, request, day, end, cut) ==
    point_fundamentals(db, sector_symbols, request, day, end, cut,
        _query_latest_annual_items_aligned(
            db.stock_statement, {sector_symbols[i] : i \in DOMAIN sector_symbols}, cut,
            income_items, balance_items))

rebalance_point(db, sector_symbols, request, day, end) ==
    point_cutoff(db, sector_symbols, request, day, end,
                 fundamentals_cutoff(day, request.fundamentals_lag_days))

-----------------------------------------------------------------------------
(* datetime.date and the calendar of backtest_sector (lines 973-978 and
   2546-2565).  A date is <<year, month, day>>; toordinal is date.toordinal(),
   the day number in which the table rows are dated. *)

is_leap(y) == (y % 4 = 0 /\ y % 100 # 0) \/ y % 400 = 0

days_in_month(y, m) ==
    IF m = 2 THEN (IF is_leap(y) THEN 29 ELSE 28)
    ELSE IF m \in {4, 6, 9, 11} THEN 30 ELSE 31

\* date(y, m, d) does not raise ValueError
is_date(y, m, d) == m \in 1..12 /\ d >= 1 /\ d <= days_in_month(y, m)

RECURSIVE days_before_month(_, _)
days_before_month(y, m) ==
    IF m = 1 THEN 0 ELSE days_before_month(y, m - 1) + days_in_month(y, m - 1)

toordinal(d) ==
    LET y == d[1] - 1
    IN  365 * y + (y \div 4) - (y \div 100) + (y \div 400) + days_before_month(d[1], d[2]) + d[3]

\* a shift that moves a Feb 29 without a target to Mar 1
_shift_years_to_march(d, delta_years) ==
    IF is_date(d[1] + delta_years, d[2], d[3])
    THEN <<d[1] + delta_years, d[2], d[3]>>
    ELSE <<d[1] + delta_years, 3, 1>>

\* lines 973-978
_shift_years(d, delta_years) ==
    IF is_date(d[1] + delta_years, d[2], d[3])
    THEN <<d[1] + delta_years, d[2], d[3]>>
    ELSE <<d[1] + delta_years, d[2], 28>>

\* a guard that compares the rebalance day itself with the earliest statement
passes_min_date_unlagged(candidate_date, lag_days, earliest) ==
    earliest = None \/ ~(toordinal(candidate_date) < earliest[1])

\* lines 2560-2563: the candidate is kept; earliest is None or <<day number>>
passes_min_date(candidate_date, lag_days, earliest) ==
    earliest = None \/ ~(toordinal(candidate_date) - lag_days < earliest[1])

\* a range that stops one year short: range(years, holding_years, -1)
calendar_range_short(years, holding_years) ==
    [k \in 1..(IF years >= holding_years + 1 THEN years - holding_years ELSE 0) |->
        years - k + 1]

\* line 2558: range(years, holding_years - 1, -1)
calendar_range(years, holding_years) ==
    [k \in 1..(IF years >= holding_years THEN years - holding_years + 1 ELSE 0) |->
        years - k + 1]

\* as_of_dates.sort()
RECURSIVE sort_dates(_)
sort_dates(dates) ==
    IF dates = <<>> THEN <<>>
    ELSE LET rest == sort_dates(Tail(dates))
             below == SelectSeq(rest, LAMBDA x : toordinal(x) < toordinal(Head(dates)))
             above == SelectSeq(rest, LAMBDA x : ~(toordinal(x) < toordinal(Head(dates))))
         IN  below \o <<Head(dates)>> \o above

\* lines 2556-2565
build_calendar(day, years, holding_years, lag_days, earliest) ==
    LET candidates == [k \in DOMAIN calendar_range(years, holding_years) |->
                          _shift_years(day, -calendar_range(years, holding_years)[k])]
    IN  sort_dates(SelectSeq(candidates,
                             LAMBDA c : passes_min_date(c, lag_days, earliest)))

\* lines 1466-1484: the last adj_close of the series dated <= as_of
RECURSIVE _get_etf_adj_close_asof(_, _)
_get_etf_adj_close_asof(series, day) ==
    IF series = <<>> \/ series[1].date > day THEN None
    ELSE LET later == _get_etf_adj_close_asof(Tail(series), day)
         IN  IF later # None THEN later ELSE series[1].adj_close

\* the query of lines 945-970 over the whole statement table: None, or the
\* earliest date as <<day number>>
_min_annual_statement_date(table) ==
    LET dated == {r \in table : /\ r.period_type = "annual"
                                /\ ~r.ttm
                                /\ r.finance_type \in {"income_statement", "balance_sheet"}}
    IN  IF dated = {} THEN None
        ELSE <<CHOOSE d \in {r.report_date : r \in dated} : \A r \in dated : d <= r.report_date>>

\* lines 2963-2967
benchmark_return_of(series, day, end) ==
    LET b_start == _get_etf_adj_close_asof(series, day)
        b_end == _get_etf_adj_close_asof(series, end)
    IN  IF b_start # None /\ b_end # None /\ RLt(R(0), b_start)
        THEN RSub(RDiv(b_end, b_start), R(1))
        ELSE None

\* lines 3047-3067: the return of one symbol of the universe, None when skipped
industry_return(start_price, end_price, splits, dividends, day, end) ==
    IF start_price = None \/ end_price = None \/ RLe(start_price, R(0)) THEN None
    ELSE selected_return(start_price, end_price, splits, dividends, day, end).total_return

\* lines 3043-3067: industry_returns, in the order of records
industry_returns_of(symbols, day, end, price_map, end_prices, splits_map, dividends_map) ==
    SelectSeq([i \in DOMAIN symbols |->
                  industry_return(get_close(price_map, symbols[i]),
                                  get_close(end_prices, symbols[i]),
                                  splits_map[symbols[i]], dividends_map[symbols[i]],
                                  day, end)],
              LAMBDA tr : tr # None)

\* lines 2969-3071 for a request without filters: filtered_set holds every
\* symbol of records, and price_map is the as-of price query of line 2666
industry_avg_of(db, symbols, day, end) ==
    LET returns == industry_returns_of(symbols, day, end,
                       _query_latest_prices(db.stock_prices,
                                            {symbols[i] : i \in DOMAIN symbols}, day),
                       _query_latest_prices(db.stock_prices,
                                            {symbols[i] : i \in DOMAIN symbols}, end),
                       _query_split_events(db.stock_split_events,
                                           {symbols[i] : i \in DOMAIN symbols}, day, end),
                       _query_dividend_events(db.stock_dividend_events,
                                              {symbols[i] : i \in DOMAIN symbols}, day, end))
    IN  IF returns # <<>> THEN fmean(returns) ELSE None

\* a comparison that counts a tie as a win
is_win_or_tie(portfolio_return, benchmark_return) == ~RLt(portfolio_return, benchmark_return)

\* line 3091
is_win(portfolio_return, benchmark_return) == RLt(benchmark_return, portfolio_return)

is_note_point(point) == "note" \in DOMAIN point

\* lines 3094-3111: the point of a turn that reached the end of the loop body
full_point(point, benchmark_return, industry_avg_return) ==
    [as_of |-> point.as_of, end_date |-> point.end_date,
     universe_size |-> point.universe_size,
     filtered_by_filters_size |-> point.filtered_by_filters_size,
     filtered_size |-> point.filtered_size,
     mean_pe |-> point.mean_pe,
     selected |-> point.selected,
     portfolio_total_return |-> point.portfolio_total_return,
     benchmark_total_return |-> benchmark_return,
     industry_avg_return |-> industry_avg_return,
     industry_avg_return_raw |-> industry_avg_return,
     industry_avg_return_filtered |-> industry_avg_return]

\* the point appended by one turn of the loop of lines 2609-3111
turn_point(db, request, series, day, end, outcome) ==
    IF is_note_point(outcome.point) THEN outcome.point
    ELSE full_point(outcome.point, benchmark_return_of(series, day, end),
                    industry_avg_of(db, [i \in DOMAIN outcome.records |->
                                            outcome.records[i].symbol], day, end))

backtest_point(db, sector_symbols, request, series, start_date, holding_years) ==
    turn_point(db, request, series, toordinal(start_date),
               toordinal(_shift_years(start_date, holding_years)),
               rebalance_point(db, sector_symbols, request, toordinal(start_date),
                               toordinal(_shift_years(start_date, holding_years))))

\* p.get(name)
point_get(point, name) == IF name \in DOMAIN point THEN point[name] ELSE None

\* lines 3118-3121: the defined values of one field over the points
defined_values(all_points, name) ==
    SelectSeq([i \in DOMAIN all_points |-> point_get(all_points[i], name)],
              LAMBDA v : v # None)

mean_or_none(values) == IF values # <<>> THEN fmean(values) ELSE None

\* lines 3122-3130
build_summary(all_points, wins, valid) ==
    [points |-> Len(all_points),
     points_with_returns |-> valid,
     win_rate |-> IF valid # 0 THEN Rat(wins, valid) ELSE None,
     avg_portfolio_return |-> mean_or_none(defined_values(all_points, "portfolio_total_return")),
     avg_benchmark_return |-> mean_or_none(defined_values(all_points, "benchmark_total_return")),
     avg_industry_return |-> mean_or_none(defined_values(all_points, "industry_avg_return")),
     avg_industry_return_raw |->
         mean_or_none(defined_values(all_points, "industry_avg_return_raw"))]

-----------------------------------------------------------------------------
(* Bounds of the scorer's inputs *)

MaxPeers == 3
MaxCalls == 2

PeerValues == {R(10), R(20), R(30)}
RankValues == {R(5 * i) : i \in 1..7}

MaxActive == 3
MaxSplits == 2
MaxDividends == 2
MaxRows == 3
MaxDay == 3

RatiosIdle == ratios = None /\ peers = None /\ weights = None /\ valuation = {}
ReturnIdle ==
    /\ as_of = None /\ end_date = None /\ sym_splits = None /\ sym_dividends = None
    /\ sp = None /\ ep = None /\ row = None
StatementIdle == stock_statement = {} /\ cutoff = None /\ aligned = None
MarketIdle ==
    /\ stock_prices = {} /\ stock_shares_outstanding = {} /\ stock_split_events = {}
    /\ stock_dividend_events = {} /\ payload = None /\ runs = <<>>
ScreenIdle ==
    /\ candidate = None /\ universe_records = None /\ filters = None
    /\ kept_records = None /\ scored_list = None /\ selected_list = None
CalendarIdle ==
    /\ today = None /\ min_stmt = None /\ as_of_dates = None /\ points = None /\ summary = None
    /\ etf_prices = None /\ win_count = 0 /\ valid_point_count = 0 /\ turn = 0
ServiceIdle ==
    /\ max_attempts = 0 /\ attempt = 0 /\ last_exc = None /\ sleeps = <<>> /\ query_outcome = None
    /\ lookups = <<>> /\ response = None
RulesIdle ==
    /\ backtest_rule_search = None /\ _BACKTEST_RULES_CACHE = None /\ rules_query = None
    /\ rules_response = None /\ served = 0
RankIdle == peer_values = None /\ higher_is_better = FALSE /\ ranked = {}

-----------------------------------------------------------------------------
(* SpecRank: calls of percentile_rank on one peer list *)

RankInit ==
    /\ pc = "percentile_rank"
    /\ peer_values \in SeqsUpTo(PeerValues \cup {None}, MaxPeers)
    /\ higher_is_better \in BOOLEAN
    /\ ranked = {}
    /\ RatiosIdle
    /\ ReturnIdle
    /\ StatementIdle
    /\ MarketIdle
    /\ ScreenIdle
    /\ CalendarIdle
    /\ ServiceIdle
    /\ RulesIdle

PercentileRank(v) ==
    /\ pc = "percentile_rank"
    /\ Cardinality(ranked) < MaxCalls
    /\ ranked' = ranked \cup
          {[value |-> v, percentile |-> percentile_rank(v, peer_values, higher_is_better)]}
    /\ UNCHANGED <<pc, peer_values, higher_is_better, valuationVars, marketVars, screenVars, calendarVars, serviceVars, rulesVars, returnVars, statementVars>>

RankNext == \E v \in RankValues \cup {None} : PercentileRank(v)

SpecRank == RankInit /\ [][RankNext]_vars

\* the positions of the peers that are not None, and of those worse than v
ValidAt == {i \in DOMAIN peer_values : peer_values[i] # None}
WorseAt(v) ==
    {i \in ValidAt : IF higher_is_better THEN RLt(peer_values[i], v)
                                         ELSE RLt(v, peer_values[i])}

\* C8: percentile_rank is 50 for a None value or no non-None peer, otherwise
\* 100 x (peers strictly worse than the value) / (non-None peers), within
\* [0, 100]; peers [10, 20, 30], value 15, lower-is-better gives 200/3 (66.7).
C8_PercentileRank ==
    \A c \in ranked :
        /\ (c.value = None \/ ValidAt = {}) => c.percentile = R(50)
        /\ (c.value # None /\ ValidAt # {}) =>
              /\ c.percentile = Rat(100 * Cardinality(WorseAt(c.value)), Cardinality(ValidAt))
              /\ RLe(R(0), c.percentile) /\ RLe(c.percentile, R(100))
        /\ (peer_values = <<R(10), R(20), R(30)>> /\ ~higher_is_better /\ c.value = R(15)) =>
              /\ c.percentile = Rat(200, 3)
              /\ Round1(c.percentile) = Rat(667, 10)

C8_Witness ==
    /\ peer_values = <<R(10), R(20), R(30)>>
    /\ ~higher_is_better
    /\ [value |-> R(15), percentile |-> Rat(200, 3)] \in ranked

\* C9: for a fixed peer list percentile_rank is non-decreasing in the value when
\* higher is better, and non-increasing when lower is better.
C9_Monotone ==
    \A c1, c2 \in ranked :
        (c1.value # None /\ c2.value # None /\ RLe(c1.value, c2.value)) =>
            IF higher_is_better THEN RLe(c1.percentile, c2.percentile)
                                ELSE RLe(c2.percentile, c1.percentile)

C9_Witness ==
    \E c1, c2 \in ranked :
        /\ c1.value # None /\ c2.value # None
        /\ RLt(c1.value, c2.value)
        /\ higher_is_better
        /\ RLt(c1.percentile, c2.percentile)

-----------------------------------------------------------------------------
(* SpecValuation: calculate_valuation_factor on one candidate, and on the same
   candidate with its ratios and peer lists rescaled *)

\* what a caller passes for one component: <<ratio, peer list>>
ComponentInputs ==
    {<<None, <<R(2), R(4)>>>>,          \* no ratio
     <<R(2), <<>>>>,                    \* a ratio and no peer
     <<R(2), <<None>>>>,                \* a ratio and a peer without a value
     <<R(1), <<R(2), R(4)>>>>,          \* cheaper than both peers
     <<R(2), <<R(2), R(4)>>>>,          \* cheaper than one peer
     <<R(4), <<R(2), R(4)>>>>}          \* the most expensive

NoWeights == [k \in ComponentNames |-> None]

\* the caller's weights dict: None for a key the dict does not hold
WeightChoices ==
    {NoWeights,
     [NoWeights EXCEPT !["pe"] = R(0)],
     [NoWeights EXCEPT !["pe"] = R(2), !["ps"] = R(1)],
     [NoWeights EXCEPT !["pe"] = R(-1), !["ps"] = R(3)],
     [k \in ComponentNames |-> R(0)],
     [k \in ComponentNames |-> R(-1)]}

Transforms == {"times3", "half", "square"}

\* an order-preserving map of the positive ratios
Rescale(x, t) ==
    IF x = None THEN None
    ELSE IF t = "times3" THEN RMul(x, R(3))
    ELSE IF t = "half" THEN RDiv(x, R(2))
    ELSE IF t = "square" THEN RMul(x, x)
    ELSE x

ValuationInit ==
    /\ pc = "calculate_valuation_factor"
    /\ \E inp \in [ComponentNames -> ComponentInputs] :
          /\ Cardinality({k \in ComponentNames : inp[k][1] # None}) <= MaxActive
          /\ ratios = [k \in ComponentNames |-> inp[k][1]]
          /\ peers = [k \in ComponentNames |-> inp[k][2]]
    /\ weights \in WeightChoices
    /\ valuation = {}
    /\ RankIdle
    /\ ReturnIdle
    /\ StatementIdle
    /\ MarketIdle
    /\ ScreenIdle
    /\ CalendarIdle
    /\ ServiceIdle
    /\ RulesIdle

Calculate ==
    /\ pc = "calculate_valuation_factor"
    /\ valuation = {}
    /\ valuation' = {[by |-> "same", result |-> calculate_valuation_factor(ratios, peers, weights)]}
    /\ UNCHANGED <<pc, ratios, peers, weights, rankVars, marketVars, screenVars, calendarVars, serviceVars, rulesVars, returnVars, statementVars>>

CalculateRescaled(t) ==
    /\ pc = "calculate_valuation_factor"
    /\ Cardinality(valuation) = 1
    /\ valuation' = valuation \cup
          {[by |-> t,
            result |-> calculate_valuation_factor(
                [k \in ComponentNames |-> Rescale(ratios[k], t)],
                [k \in ComponentNames |-> [i \in DOMAIN peers[k] |-> Rescale(peers[k][i], t)]],
                weights)]}
    /\ UNCHANGED <<pc, ratios, peers, weights, rankVars, marketVars, screenVars, calendarVars, serviceVars, rulesVars, returnVars, statementVars>>

ValuationNext == Calculate \/ \E t \in Transforms : CalculateRescaled(t)

SpecValuation == ValuationInit /\ [][ValuationNext]_vars

\* the components the caller gave both a ratio and at least one peer
Available == {k \in ComponentNames : ratios[k] # None /\ peers[k] # <<>>}

RECURSIVE SumOver(_, _)
SumOver(S, f) ==
    IF S = {} THEN R(0)
    ELSE LET k == CHOOSE x \in S : TRUE IN RAdd(f[k], SumOver(S \ {k}, f))

\* the caller's weight of a component, 1.0 by default, a negative one counted as 0
CallerWeight == [k \in ComponentNames |->
                    IF weights[k] = None THEN R(1) ELSE RMax(R(0), weights[k])]

\* the mean of the available percentiles cs: weighted when the weights of the
\* available components sum to more than 0, unweighted otherwise
MeanOfAvailable(cs) ==
    LET W == SumOver(Available, CallerWeight)
    IN  IF RLt(R(0), W)
        THEN RDiv(SumOver(Available, [k \in Available |-> RMul(CallerWeight[k], cs[k])]), W)
        ELSE RDiv(SumOver(Available, cs), R(Cardinality(Available)))

\* C6: the score is None only when no component is available; with at least one
\* available it is the weighted mean of the available percentiles rounded to one
\* decimal, also when that mean is 0.
C6_ScoreNoneOnlyWithoutComponents ==
    \A c \in valuation :
        /\ (c.result.score = None) <=> (Available = {})
        /\ (Available # {}) => c.result.score = Round1(MeanOfAvailable(c.result.components))

\* C7: when the weights of the present components (negative ones counted as 0) sum
\* to more than 0, the returned weights cover exactly the present components, are
\* each >= 0 and sum to 1, and a missing component has no weight and no score;
\* when they sum to 0 or less the score is the unweighted mean of the present scores.
C7_WeightsNormalized ==
    \A c \in valuation :
        LET r == c.result
            W == SumOver(Available, CallerWeight)
        IN  /\ \A k \in ComponentNames \ Available : r.components[k] = None
            /\ \A k \in Available : r.components[k] # None
            /\ (Available # {} /\ RLt(R(0), W)) =>
                  /\ r.weights # None
                  /\ DOMAIN r.weights = Available
                  /\ \A k \in Available : RLe(R(0), r.weights[k])
                  /\ SumOver(Available, r.weights) = R(1)
            /\ (Available # {} /\ RLe(W, R(0))) =>
                  r.score = Round1(RDiv(SumOver(Available, r.components),
                                        R(Cardinality(Available))))

\* C10: the component percentiles and the composite score do not change when the
\* ratios and their peer lists are rescaled by an order-preserving map.
C10_RankOnly ==
    \A c1, c2 \in valuation :
        /\ c1.result.components = c2.result.components
        /\ c1.result.score = c2.result.score

C10_Witness ==
    \E c \in valuation :
        /\ c.by = "times3"
        /\ c.result.component_count >= 2
        /\ c.result.score # None
        /\ \E k \in Available : c.result.components[k] = R(50)

-----------------------------------------------------------------------------
(* SpecReturn: the corporate-action return of one selected symbol *)

\* 2020-01-01 is as_of and 2021-01-01 is end_date; dates order as integers
EventDates == {20200101, 20200301, 20200601, 20210101, 20210201}
SplitFactors == {R(2), Rat(1, 2)}
DividendAmounts == {R(1), R(2)}

\* the event queries return their rows ordered by report_date
ByDate(s) == \A i, j \in DOMAIN s : i < j => s[i].date <= s[j].date

ReturnInit ==
    /\ pc = "total_return"
    /\ as_of = 20200101
    /\ end_date = 20210101
    /\ sym_splits \in {s \in SeqsUpTo([date : EventDates, factor : SplitFactors], MaxSplits) :
                          ByDate(s)}
    /\ sym_dividends \in {s \in SeqsUpTo([date : EventDates, amount : DividendAmounts],
                                         MaxDividends) : ByDate(s)}
    /\ sp \in {R(100), R(50)}
    /\ ep \in {None, R(60), R(110)}
    /\ row = None
    /\ RankIdle
    /\ RatiosIdle
    /\ StatementIdle
    /\ MarketIdle
    /\ ScreenIdle
    /\ CalendarIdle
    /\ ServiceIdle
    /\ RulesIdle

TotalReturn ==
    /\ pc = "total_return"
    /\ row = None
    /\ row' = selected_return(sp, ep, sym_splits, sym_dividends, as_of, end_date)
    /\ pc' = "done"
    /\ UNCHANGED <<as_of, end_date, sym_splits, sym_dividends, sp, ep, rankVars, valuationVars, marketVars, screenVars, calendarVars, serviceVars, rulesVars,
                   statementVars>>

ReturnNext == TotalReturn

SpecReturn == ReturnInit /\ [][ReturnNext]_vars

\* the positions of the events dated in (as_of, to]
SplitsUpTo(to) == {i \in DOMAIN sym_splits : as_of < sym_splits[i].date /\ sym_splits[i].date <= to}
DividendsInWindow ==
    {i \in DOMAIN sym_dividends :
        as_of < sym_dividends[i].date /\ sym_dividends[i].date <= end_date}

RECURSIVE FactorProduct(_)
FactorProduct(I) ==
    IF I = {} THEN R(1)
    ELSE LET i == CHOOSE x \in I : TRUE
         IN  RMul(sym_splits[i].factor, FactorProduct(I \ {i}))

RECURSIVE DividendSum(_)
DividendSum(I) ==
    IF I = {} THEN R(0)
    ELSE LET i == CHOOSE x \in I : TRUE
         IN  RAdd(RMul(sym_dividends[i].amount, FactorProduct(SplitsUpTo(sym_dividends[i].date))),
                  DividendSum(I \ {i}))

ReportedSplitFactor == IF row.split_factor = None THEN R(1) ELSE row.split_factor

\* C3: total_return is (end_price x split_factor + dividends) / start_price - 1 when
\* the start price is positive and an end price exists, None otherwise; with no
\* split and no dividend in (as_of, end_date] it is end_price / start_price - 1.
C3_TotalReturn ==
    row # None =>
        /\ (RLt(R(0), sp) /\ ep # None) =>
              row.total_return =
                  RSub(RDiv(RAdd(RMul(ep, ReportedSplitFactor), row.dividends), sp), R(1))
        /\ ~(RLt(R(0), sp) /\ ep # None) => row.total_return = None
        /\ (RLt(R(0), sp) /\ ep # None /\ SplitsUpTo(end_date) = {} /\ DividendsInWindow = {}) =>
              row.total_return = RSub(RDiv(ep, sp), R(1))

C3_Witness ==
    /\ row # None
    /\ ep # None
    /\ SplitsUpTo(end_date) # {}
    /\ DividendsInWindow # {}
    /\ row.total_return # None
    /\ row.total_return # RSub(RDiv(ep, sp), R(1))

\* C4: the dividends are the sum, over the dividends dated in (as_of, end_date], of
\* amount x the product of the factors of the splits dated in (as_of, dividend
\* date]; start 100, a 2-for-1 split on 2020-06-01, a 1.0 dividend on 2020-03-01
\* and end price 60 give dividends 1.0 and total return 0.21.
C4_Dividends ==
    row # None =>
        /\ row.dividends = DividendSum(DividendsInWindow)
        /\ (/\ sp = R(100) /\ ep = R(60)
            /\ sym_splits = <<[date |-> 20200601, factor |-> R(2)]>>
            /\ sym_dividends = <<[date |-> 20200301, amount |-> R(1)]>>) =>
              /\ row.dividends = R(1)
              /\ row.split_factor = R(2)
              /\ row.total_return = Rat(21, 100)

C4_Witness ==
    /\ row # None
    /\ \E i \in DividendsInWindow :
          \E j \in SplitsUpTo(end_date) : sym_splits[j].date = sym_dividends[i].date
    /\ \E i \in DividendsInWindow :
          \E j \in SplitsUpTo(end_date) : sym_splits[j].date > sym_dividends[i].date
    /\ row.dividends # R(0)

\* C5: the split factor is the product of the factors of exactly the splits dated
\* in (start, end]; a split followed in the window by its inverse gives factor 1
\* and, without dividends, the return end_price / start_price - 1.
C5_SplitFactor ==
    row # None =>
        /\ ReportedSplitFactor = FactorProduct(SplitsUpTo(end_date))
        /\ (/\ Len(sym_splits) = 2
            /\ SplitsUpTo(end_date) = {1, 2}
            /\ sym_splits[2].factor = RDiv(R(1), sym_splits[1].factor)) =>
              /\ row.split_factor = None
              /\ (DividendsInWindow = {} /\ ep # None) =>
                    row.total_return = RSub(RDiv(ep, sp), R(1))

C5_Witness ==
    /\ row # None
    /\ Len(sym_splits) = 2
    /\ SplitsUpTo(end_date) = {1, 2}
    /\ sym_splits[2].factor = RDiv(R(1), sym_splits[1].factor)
    /\ DividendsInWindow = {}
    /\ ep # None
    /\ row.total_return = RSub(RDiv(ep, sp), R(1))

-----------------------------------------------------------------------------
(* SpecAligned: the stock_statement table gains rows, then the aligned
   fundamentals of the sector's symbols are queried at a cutoff *)

Symbols == {"AAA", "BBB"}
Days == 1..MaxDay

\* the item names the caller lists, and one name of each statement it does not list
IncomeItems == {"total_revenue"}
BalanceItems == {"stockholders_equity"}
OtherItem == [income_statement |-> "tax_provision", balance_sheet |-> "inventory"]
FinanceTypes == {"income_statement", "balance_sheet"}
ListedItem == [income_statement |-> "total_revenue", balance_sheet |-> "stockholders_equity"]

\* the rows the table may gain; a dated row's value tells its date
AnnualStatementRows ==
    {[symbol |-> s, ttm |-> FALSE, report_date |-> d, period_type |-> "annual",
      finance_type |-> f, item_name |-> i[f], item_value |-> R(d)] :
        s \in Symbols, d \in Days, f \in FinanceTypes, i \in {ListedItem, OtherItem}}
QuarterlyRows ==
    {[r EXCEPT !.period_type = "quarterly"] :
        r \in {x \in AnnualStatementRows : x.item_name = ListedItem[x.finance_type]}}
TTMRows ==
    {[symbol |-> s, ttm |-> TRUE, report_date |-> 0, period_type |-> "annual",
      finance_type |-> f, item_name |-> ListedItem[f], item_value |-> R(0)] :
        s \in Symbols, f \in FinanceTypes}

AlignedInit ==
    /\ pc = "load"
    /\ stock_statement = {}
    /\ cutoff = None
    /\ aligned = None
    /\ RankIdle
    /\ RatiosIdle
    /\ ReturnIdle
    /\ MarketIdle
    /\ ScreenIdle
    /\ CalendarIdle
    /\ ServiceIdle
    /\ RulesIdle

InsertStatement(r) ==
    /\ pc = "load"
    /\ Cardinality(stock_statement) < MaxRows
    /\ r \notin stock_statement
    /\ stock_statement' = stock_statement \cup {r}
    /\ UNCHANGED <<pc, cutoff, aligned, rankVars, valuationVars, marketVars, screenVars, calendarVars, serviceVars, rulesVars, returnVars>>

QueryAligned(cut) ==
    /\ pc = "load"
    /\ cutoff' = cut
    /\ aligned' = _query_latest_annual_items_aligned(stock_statement, Symbols, cut,
                                                     IncomeItems, BalanceItems)
    /\ pc' = "done"
    /\ UNCHANGED <<stock_statement, rankVars, valuationVars, marketVars, screenVars, calendarVars, serviceVars, rulesVars, returnVars>>

AlignedNext ==
    \/ \E r \in AnnualStatementRows \cup QuarterlyRows \cup TTMRows : InsertStatement(r)
    \/ \E cut \in Days \ {1} : QueryAligned(cut)

SpecAligned == AlignedInit /\ [][AlignedNext]_vars

\* the annual, dated rows of a symbol and a statement type on day d
AnnualRows(sym, f, d) ==
    {r \in stock_statement :
        /\ r.symbol = sym /\ r.finance_type = f /\ r.report_date = d
        /\ r.period_type = "annual" /\ ~r.ttm}
ListedRows(sym, f, d) ==
    {r \in AnnualRows(sym, f, d) :
        r.item_name \in (IF f = "income_statement" THEN IncomeItems ELSE BalanceItems)}

\* the days up to the cutoff on which both statements have an annual record
RecordedDays(sym) ==
    {d \in Days : d <= cutoff /\ \A f \in FinanceTypes : AnnualRows(sym, f, d) # {}}
\* ... on which both statements have an annual record of a requested item
AlignedDays(sym) ==
    {d \in Days : d <= cutoff /\ \A f \in FinanceTypes : ListedRows(sym, f, d) # {}}

\* the result holds sym with the items of day d only
TakenFrom(sym, d) ==
    /\ sym \in DOMAIN aligned
    /\ aligned[sym].report_date = d
    /\ DOMAIN aligned[sym].income_items =
          {r.item_name : r \in ListedRows(sym, "income_statement", d)}
    /\ DOMAIN aligned[sym].balance_items =
          {r.item_name : r \in ListedRows(sym, "balance_sheet", d)}
    /\ \A i \in DOMAIN aligned[sym].income_items : aligned[sym].income_items[i] = R(d)
    /\ \A i \in DOMAIN aligned[sym].balance_items : aligned[sym].balance_items[i] = R(d)

\* C2: each symbol's items come from the latest annual day <= cutoff on
\* which an income-statement record and a balance-sheet record both exist, and a
\* symbol without such a day is absent from the result.
C2_LatestRecordedDay ==
    pc = "done" =>
        \A sym \in Symbols :
            IF RecordedDays(sym) = {} THEN sym \notin DOMAIN aligned
            ELSE TakenFrom(sym, Max(RecordedDays(sym)))

\* What the query does guarantee (C2 with "record" narrowed to the requested
\* items): each symbol's items come from the latest annual day <= cutoff on which
\* an income-statement record of a requested income item and a balance-sheet
\* record of a requested balance item both exist; a symbol without such a day is
\* absent from the result.
C2_LatestAlignedDay ==
    pc = "done" =>
        \A sym \in Symbols :
            IF AlignedDays(sym) = {} THEN sym \notin DOMAIN aligned
            ELSE TakenFrom(sym, Max(AlignedDays(sym)))

\* a later day with the income statement alone, an earlier aligned day chosen
C2_Witness ==
    /\ pc = "done"
    /\ \E sym \in Symbols :
          /\ sym \in DOMAIN aligned
          /\ \E d \in Days :
                /\ d <= cutoff
                /\ d > aligned[sym].report_date
                /\ ListedRows(sym, "income_statement", d) # {}
                /\ ListedRows(sym, "balance_sheet", d) = {}

-----------------------------------------------------------------------------
(* SpecPoint: one rebalance point of backtest_sector computed twice.  The
   first run sees the seed data; records dated after the point's horizon are
   then published and the point is computed again.  Day 3 is the rebalance
   day and day 5 the end of the holding period. *)

MaxLate == 2

SectorSymbols == <<"AAA", "BBB">>

StatementRow(sym, d, f, item, v) ==
    [symbol |-> sym, ttm |-> FALSE, report_date |-> d, period_type |-> "annual",
     finance_type |-> f, item_name |-> item, item_value |-> v]

\* the annual statements of day 1; BBB's balance sheet may be missing
SeedStatements(eps_a, eps_b, balance_b) ==
    {StatementRow("AAA", 1, "income_statement", "total_revenue", R(100)),
     StatementRow("AAA", 1, "income_statement", "diluted_eps", eps_a),
     StatementRow("AAA", 1, "balance_sheet", "stockholders_equity", R(50)),
     StatementRow("BBB", 1, "income_statement", "total_revenue", R(200)),
     StatementRow("BBB", 1, "income_statement", "diluted_eps", eps_b)}
    \cup (IF balance_b
          THEN {StatementRow("BBB", 1, "balance_sheet", "stockholders_equity", R(40))}
          ELSE {})

SeedPrices ==
    {[symbol |-> "AAA", report_date |-> 1, close |-> R(10)],
     [symbol |-> "AAA", report_date |-> 3, close |-> R(12)],
     [symbol |-> "AAA", report_date |-> 5, close |-> R(15)],
     [symbol |-> "BBB", report_date |-> 2, close |-> R(30)]}

SeedShares ==
    {[symbol |-> "AAA", report_date |-> 1, shares_outstanding |-> R(10)],
     [symbol |-> "BBB", report_date |-> 2, shares_outstanding |-> R(5)]}

DefaultRules == [pe_positive |-> TRUE, pe_below_universe_mean |-> TRUE, fundamental_rules |-> <<>>]

PayloadChoices ==
    LET request(n, lag, rules) ==
            [top_n |-> n, fundamentals_lag_days |-> lag, rules |-> rules,
             weights |-> [k \in ComponentNames |-> None], filters |-> None,
             sector |-> "Technology"]
    IN  {request(1, 1, DefaultRules),
         request(2, 1, [DefaultRules EXCEPT !.pe_below_universe_mean = FALSE]),
         request(1, 1, [DefaultRules EXCEPT !.pe_positive = FALSE,
                                            !.pe_below_universe_mean = FALSE]),
         request(2, 1, [pe_positive |-> FALSE, pe_below_universe_mean |-> FALSE,
                        fundamental_rules |-> <<[metric |-> "ps", operator |-> "lt_mean"]>>]),
         request(2, 0, [pe_positive |-> FALSE, pe_below_universe_mean |-> FALSE,
                        fundamental_rules |-> <<[metric |-> "pb", operator |-> "gt_zero"],
                                                [metric |-> "ps", operator |-> "lt_median"]>>])}

\* the horizon of the fundamentals and of the share counts: as_of - fundamentals_lag_days
Horizon == as_of - payload.fundamentals_lag_days

\* records a run at as_of could not have known
LateStatements ==
    {StatementRow(sym, d, t[1], t[2], R(3)) :
        sym \in {"AAA", "BBB"}, d \in (Horizon + 1)..4,
        t \in {<<"income_statement", "diluted_eps">>, <<"balance_sheet", "stockholders_equity">>}}
LateShares ==
    {[symbol |-> sym, report_date |-> d, shares_outstanding |-> R(20)] :
        sym \in {"AAA", "BBB"}, d \in {Horizon + 1, 4}}
LatePrices ==
    {[symbol |-> sym, report_date |-> d, close |-> R(40)] :
        sym \in {"AAA", "BBB"}, d \in (as_of + 1)..(end_date - 1)}
    \cup {[symbol |-> "BBB", report_date |-> end_date, close |-> R(33)]}
LateSplits ==
    {[symbol |-> sym, report_date |-> as_of + 1, split_factor |-> <<2, 1>>] :
        sym \in {"AAA", "BBB"}}
LateDividends ==
    {[symbol |-> sym, report_date |-> as_of + 1, amount |-> R(1)] : sym \in {"AAA", "BBB"}}

Published ==
    Cardinality(stock_statement \cap LateStatements)
    + Cardinality(stock_shares_outstanding \cap LateShares)
    + Cardinality(stock_prices \cap LatePrices)
    + Cardinality(stock_split_events)
    + Cardinality(stock_dividend_events)

Database ==
    [stock_statement |-> stock_statement, stock_prices |-> stock_prices,
     stock_shares_outstanding |-> stock_shares_outstanding,
     stock_split_events |-> stock_split_events,
     stock_dividend_events |-> stock_dividend_events]

PointInit ==
    /\ pc = "seed"
    /\ \E eps_a \in {R(1), R(2), R(-1)}, eps_b \in {R(2), R(3)}, balance_b \in BOOLEAN :
           stock_statement = SeedStatements(eps_a, eps_b, balance_b)
    /\ stock_prices = SeedPrices
    /\ stock_shares_outstanding = SeedShares
    /\ stock_split_events = {}
    /\ stock_dividend_events = {}
    /\ payload \in PayloadChoices
    /\ runs = <<>>
    /\ as_of = 3
    /\ end_date = 5
    /\ cutoff = None /\ aligned = None
    /\ sym_splits = None /\ sym_dividends = None /\ sp = None /\ ep = None /\ row = None
    /\ RankIdle
    /\ RatiosIdle
    /\ ScreenIdle
    /\ CalendarIdle
    /\ ServiceIdle
    /\ RulesIdle

pointFixed == <<as_of, end_date, cutoff, aligned, sym_splits, sym_dividends, sp, ep, row,
                payload, rankVars, valuationVars, screenVars, calendarVars, serviceVars, rulesVars>>

\* backtest_sector reaches the point at as_of
RunBacktest ==
    /\ pc \in {"seed", "ran"}
    /\ runs' = Append(runs, rebalance_point(Database, SectorSymbols, payload, as_of, end_date))
    /\ pc' = IF pc = "seed" THEN "ran" ELSE "done"
    /\ UNCHANGED <<stock_statement, stock_prices, stock_shares_outstanding, stock_split_events,
                   stock_dividend_events, pointFixed>>

PublishStatement(r) ==
    /\ pc = "ran" /\ Published < MaxLate /\ r \notin stock_statement
    /\ stock_statement' = stock_statement \cup {r}
    /\ UNCHANGED <<pc, runs, stock_prices, stock_shares_outstanding, stock_split_events,
                   stock_dividend_events, pointFixed>>

PublishShares(r) ==
    /\ pc = "ran" /\ Published < MaxLate /\ r \notin stock_shares_outstanding
    /\ stock_shares_outstanding' = stock_shares_outstanding \cup {r}
    /\ UNCHANGED <<pc, runs, stock_statement, stock_prices, stock_split_events,
                   stock_dividend_events, pointFixed>>

PublishPrice(r) ==
    /\ pc = "ran" /\ Published < MaxLate /\ r \notin stock_prices
    /\ stock_prices' = stock_prices \cup {r}
    /\ UNCHANGED <<pc, runs, stock_statement, stock_shares_outstanding, stock_split_events,
                   stock_dividend_events, pointFixed>>

PublishSplit(r) ==
    /\ pc = "ran" /\ Published < MaxLate /\ r \notin stock_split_events
    /\ stock_split_events' = stock_split_events \cup {r}
    /\ UNCHANGED <<pc, runs, stock_statement, stock_prices, stock_shares_outstanding,
                   stock_dividend_events, pointFixed>>

PublishDividend(r) ==
    /\ pc = "ran" /\ Published < MaxLate /\ r \notin stock_dividend_events
    /\ stock_dividend_events' = stock_dividend_events \cup {r}
    /\ UNCHANGED <<pc, runs, stock_statement, stock_prices, stock_shares_outstanding,
                   stock_split_events, pointFixed>>

PointNext ==
    \/ RunBacktest
    \/ \E r \in LateStatements : PublishStatement(r)
    \/ \E r \in LateShares : PublishShares(r)
    \/ \E r \in LatePrices : PublishPrice(r)
    \/ \E r \in LateSplits : PublishSplit(r)
    \/ \E r \in LateDividends : PublishDividend(r)

SpecPoint == PointInit /\ [][PointNext]_vars

\* what a run decided at the point: the candidates with their price, shares
\* and ratios, the sizes after each filter, and the picks with their scores
Decision(run) ==
    [records |-> run.records,
     universe_size |-> run.point.universe_size,
     selected |-> [i \in DOMAIN run.point.selected |->
                      [symbol |-> run.point.selected[i].symbol,
                       valuation_score |-> run.point.selected[i].valuation_score,
                       valuation_components |-> run.point.selected[i].valuation_components,
                       ratios |-> run.point.selected[i].ratios]]]

\* C1: No lookahead.  Two runs of the same request whose data differ only in
\* statements and share counts dated after as_of - fundamentals_lag_days and
\* in prices, splits and dividends dated after as_of yield, at that point,
\* the same candidates with the same ratios, and the same selected symbols
\* with the same valuation scores.
C1_NoLookahead ==
    pc = "done" => Decision(runs[1]) = Decision(runs[2])

\* a second run, made after late records changed the returns of a non-empty selection
C1_Witness ==
    /\ pc = "done"
    /\ Published >= 1
    /\ runs[2].point.selected # <<>>
    /\ runs[1].point # runs[2].point

-----------------------------------------------------------------------------
(* SpecRecords: the body of the records loop (lines 2686-2778) for one eligible
   symbol.  candidate holds what the symbol's latest price, lagged share count
   and aligned statement say; money is in millions. *)

\* a dict of the pairs <<name, value>> whose value is known
Dict(pairs) ==
    [n \in {q[1] : q \in {x \in pairs : x[2] # None}} |->
        (CHOOSE q \in pairs : q[1] = n)[2]]

CandidateValues ==
    [p : {None, R(0), R(10)},
     sh : {None, R(-1), R(100)},
     eps_name : {"diluted_eps", "basic_eps"},
     eps : {None, R(-1), R(0), R(2)},
     revenue : {None, R(0), R(100)},
     equity : {None, R(-50), R(50)},
     ebit : {None, R(-10), R(10)},
     ebitda : {None, R(0), R(20)},
     debt : {None, R(0), R(300)},
     cash : {None, R(100), R(2000)}]

RecordsInit ==
    /\ pc = "read"
    /\ candidate \in {c \in CandidateValues : c.eps_name = "basic_eps" => c.eps = R(2)}
    /\ universe_records = <<>>
    /\ filters = None /\ kept_records = None /\ scored_list = None /\ selected_list = None
    /\ RankIdle
    /\ RatiosIdle
    /\ ReturnIdle
    /\ StatementIdle
    /\ MarketIdle
    /\ CalendarIdle
    /\ ServiceIdle
    /\ RulesIdle

\* one turn of the loop of lines 2687-2778, for the symbol AAA
AppendRecord ==
    /\ pc = "read"
    /\ LET price_map == IF candidate.p = None THEN <<>>
                        ELSE [sym \in {"AAA"} |-> [close |-> candidate.p, price_date |-> 1]]
           shares_map == IF candidate.sh = None THEN <<>>
                         ELSE [sym \in {"AAA"} |-> [shares |-> candidate.sh, shares_date |-> 1]]
           inc_items == Dict({<<candidate.eps_name, candidate.eps>>,
                              <<"total_revenue", candidate.revenue>>,
                              <<"ebit", candidate.ebit>>, <<"ebitda", candidate.ebitda>>})
           bal_items == Dict({<<"stockholders_equity", candidate.equity>>,
                              <<"total_debt", candidate.debt>>,
                              <<"cash_and_cash_equivalents", candidate.cash>>})
       IN  universe_records' =
               IF has_price_and_shares(price_map, shares_map, "AAA")
               THEN Append(universe_records,
                           build_record("AAA", get_close(price_map, "AAA"),
                                        get_shares(shares_map, "AAA"), inc_items, bal_items))
               ELSE universe_records
    /\ pc' = "done"
    /\ UNCHANGED <<candidate, filters, kept_records, scored_list, selected_list,
                   rankVars, valuationVars, returnVars, statementVars, marketVars, calendarVars, serviceVars, rulesVars>>

RecordsNext == AppendRecord

SpecRecords == RecordsInit /\ [][RecordsNext]_vars

NonPositive(x) == x = None \/ RLe(x, R(0))
Positive(x) == x # None /\ RLt(R(0), x)

\* market_cap + debt - cash of the candidate, a missing term counting 0
CandidateEV ==
    RSub(RAdd(RMul(candidate.p, candidate.sh),
              IF candidate.debt = None THEN R(0) ELSE candidate.debt),
         IF candidate.cash = None THEN R(0) ELSE candidate.cash)

\* C11: every candidate record has each of pe, ps, pb, ev_ebit, ev_ebitda and
\* ev_sales either None or strictly positive; a missing or non-positive
\* denominator, an enterprise value that is unknown (debt and cash both unknown)
\* or non-positive gives None; price, shares and market_cap are strictly positive.
C11_RatiosNoneOrPositive ==
    pc = "done" =>
        \A i \in DOMAIN universe_records :
            LET rec == universe_records[i]
                no_ev == (candidate.debt = None /\ candidate.cash = None)
                         \/ RLe(CandidateEV, R(0))
            IN  /\ \A k \in ComponentNames : rec[k] = None \/ RLt(R(0), rec[k])
                /\ Positive(rec.price) /\ Positive(rec.shares) /\ Positive(rec.market_cap)
                /\ NonPositive(candidate.eps) => rec.pe = None
                /\ NonPositive(candidate.revenue) => (rec.ps = None /\ rec.ev_sales = None)
                /\ NonPositive(candidate.equity) => rec.pb = None
                /\ NonPositive(candidate.ebit) => rec.ev_ebit = None
                /\ NonPositive(candidate.ebitda) => rec.ev_ebitda = None
                /\ no_ev => (rec.ev_ebit = None /\ rec.ev_ebitda = None /\ rec.ev_sales = None)

\* a record whose enterprise value is negative over positive sales, beside a known pe
C11_Witness ==
    /\ pc = "done"
    /\ universe_records # <<>>
    /\ RLt(CandidateEV, R(0))
    /\ Positive(candidate.revenue)
    /\ universe_records[1].ev_sales = None
    /\ universe_records[1].pe # None

-----------------------------------------------------------------------------
(* SpecSelect: the ranking of a rebalance point (lines 2919-2923).  scored_list
   is in the order of the filtered records, which is the ascending symbol
   order of sector_symbols (line 2536). *)

MaxScored == 4

SymbolAt(i) == <<"S1", "S2", "S3", "S4", "S5", "S6">>[i]

ScoreValues == {None, R(0), R(50), R(100)}

SelectInit ==
    /\ pc = "scored"
    /\ \E n \in 0..MaxScored : \E score \in [1..n -> ScoreValues] :
           scored_list = [i \in 1..n |-> [symbol |-> SymbolAt(i), valuation_score |-> score[i]]]
    /\ \E n \in 1..(MaxScored + 1) : payload = [top_n |-> n]
    /\ selected_list = None
    /\ candidate = None /\ universe_records = None /\ filters = None /\ kept_records = None
    /\ stock_prices = {} /\ stock_shares_outstanding = {} /\ stock_split_events = {}
    /\ stock_dividend_events = {} /\ runs = <<>>
    /\ RankIdle
    /\ RatiosIdle
    /\ ReturnIdle
    /\ StatementIdle
    /\ CalendarIdle
    /\ ServiceIdle
    /\ RulesIdle

SortAndSelect ==
    /\ pc = "scored"
    /\ selected_list' = top_slice(sort_scored(scored_list), payload.top_n)
    /\ pc' = "done"
    /\ UNCHANGED <<candidate, universe_records, filters, kept_records, scored_list,
                   rankVars, valuationVars, returnVars, statementVars, marketVars, calendarVars, serviceVars, rulesVars>>

SelectNext == SortAndSelect

SpecSelect == SelectInit /\ [][SelectNext]_vars

\* entry a of scored_list ranks before entry b: a score before no score, the
\* greater score first, and the input order between equals
RanksBefore(a, b) ==
    LET sa == scored_list[a].valuation_score
        sb == scored_list[b].valuation_score
    IN  \/ sa # None /\ sb = None
        \/ sa # None /\ sb # None /\ RLt(sb, sa)
        \/ sa = sb /\ a < b

\* C12: selected is the first min(top_n, filtered_size) entries of the filtered
\* candidates ordered by score descending, every candidate without a score
\* after every candidate with one, equal scores in input order.
C12_SelectedIsTop ==
    pc = "done" =>
        /\ Len(selected_list) =
              (IF payload.top_n < Len(scored_list) THEN payload.top_n ELSE Len(scored_list))
        /\ \A i \in DOMAIN selected_list :
              \E j \in DOMAIN scored_list :
                  /\ selected_list[i] = scored_list[j]
                  /\ Cardinality({m \in DOMAIN scored_list : RanksBefore(m, j)}) = i - 1

\* more candidates than top_n, a candidate without a score ahead of scored ones
\* in the input, and two picks of equal score
C12_Witness ==
    /\ pc = "done"
    /\ Len(scored_list) > payload.top_n
    /\ \E i, j \in DOMAIN scored_list :
          i < j /\ scored_list[i].valuation_score = None /\ scored_list[j].valuation_score # None
    /\ \E i, j \in DOMAIN selected_list :
          i < j /\ selected_list[i].valuation_score = selected_list[j].valuation_score

-----------------------------------------------------------------------------
(* SpecCap: _filter_records_by_cap on a list of records *)

MaxCapRecords == 3

CapValues == {None, R(299), R(300), R(1000), R(1999), R(2000), R(3000), R(9999),
              R(10000), R(15000)}

CapChoices == {"", "all", "large", "mid", "small"}

CapInit ==
    /\ pc = "records"
    /\ \E n \in 0..MaxCapRecords : \E mc \in [1..n -> CapValues] :
           universe_records = [i \in 1..n |-> [symbol |-> SymbolAt(i), market_cap |-> mc[i]]]
    /\ \E cap \in CapChoices : filters = [cap |-> cap]
    /\ kept_records = None
    /\ candidate = None /\ scored_list = None /\ selected_list = None
    /\ RankIdle
    /\ RatiosIdle
    /\ ReturnIdle
    /\ StatementIdle
    /\ MarketIdle
    /\ CalendarIdle
    /\ ServiceIdle
    /\ RulesIdle

FilterByCap ==
    /\ pc = "records"
    /\ kept_records' = _filter_records_by_cap(universe_records, filters.cap)
    /\ pc' = "done"
    /\ UNCHANGED <<candidate, universe_records, filters, scored_list, selected_list,
                   rankVars, valuationVars, returnVars, statementVars, marketVars, calendarVars, serviceVars, rulesVars>>

CapNext == FilterByCap

SpecCap == CapInit /\ [][CapNext]_vars

\* the range of a specific bucket, in millions
InCapRange(mc, cap) ==
    /\ mc # None
    /\ cap = "large" => RLe(R(10000), mc)
    /\ cap = "mid" => (RLe(R(2000), mc) /\ RLt(mc, R(10000)))
    /\ cap = "small" => (RLe(R(300), mc) /\ RLt(mc, R(2000)))

\* C13: for cap large, mid or small the result is, in input order, exactly the
\* records whose market_cap is >= 10B, in [2B, 10B) or in [300M, 2B); unknown
\* caps and caps under 300M are in no bucket; cap 'all' or unset returns the
\* records unchanged; 'mid' on caps [1B, 3B, 15B] keeps only the 3B record.
C13_CapBuckets ==
    pc = "done" =>
        /\ filters.cap \in {"", "all"} => kept_records = universe_records
        /\ filters.cap \in {"large", "mid", "small"} =>
              kept_records = SelectSeq(universe_records,
                                       LAMBDA rec : InCapRange(rec.market_cap, filters.cap))
        /\ (/\ filters.cap = "mid"
            /\ [i \in DOMAIN universe_records |-> universe_records[i].market_cap]
                   = <<R(1000), R(3000), R(15000)>>)
              => kept_records = <<universe_records[2]>>

\* the scenario: mid on [1B, 3B, 15B]
C13_Witness ==
    /\ pc = "done"
    /\ filters.cap = "mid"
    /\ [i \in DOMAIN universe_records |-> universe_records[i].market_cap]
           = <<R(1000), R(3000), R(15000)>>
    /\ Len(kept_records) = 1

-----------------------------------------------------------------------------
(* SpecFilters: _apply_filters_to_records on a list of records whose metrics
   hold pe, or do not *)

MaxFilterRecords == 2

PeValues == {NoneValue, NanValue, Num(R(-5)), Num(R(0)), Num(R(12))}

\* the metrics dicts: without pe, or with one of its values
MetricsChoices == {<<>>} \cup {[k \in {<<"pe">>} |-> v] : v \in PeValues}

FilterRecordChoices ==
    [symbol : {"AAA"}, industry : {"Banks", "Software"}, sector : {"Technology"},
     market_cap : {R(3000)}, metrics : MetricsChoices]

Rule(metric, operator, value, enabled) ==
    [metric |-> metric, operator |-> operator, value |-> value, enabled |-> enabled]

\* the rules {pe < 0} and {pe > 0}
PairRules == <<Rule(<<"pe">>, "<", Num(R(0)), TRUE), Rule(<<"pe">>, ">", Num(R(0)), TRUE)>>

FiltersChoices ==
    {None}
    \cup {[industry |-> "", cap |-> cap, customRules |-> PairRules, ruleLogic |-> logic] :
             cap \in {"all", ""}, logic \in {"AND", "OR", ""}}
    \cup {[industry |-> "", cap |-> "all", ruleLogic |-> "OR",
           customRules |-> PairRules \o <<Rule(<<"pe">>, ">=", Num(R(0)), FALSE)>>],
          [industry |-> "Software", cap |-> "mid", customRules |-> <<>>, ruleLogic |-> "AND"],
          [industry |-> "Technology", cap |-> "large", customRules |-> <<>>, ruleLogic |-> ""]}

FiltersInit ==
    /\ pc = "records"
    /\ \E n \in 0..MaxFilterRecords : universe_records \in [1..n -> FilterRecordChoices]
    /\ filters \in FiltersChoices
    /\ kept_records = None
    /\ candidate = None /\ scored_list = None /\ selected_list = None
    /\ RankIdle
    /\ RatiosIdle
    /\ ReturnIdle
    /\ StatementIdle
    /\ MarketIdle
    /\ CalendarIdle
    /\ ServiceIdle
    /\ RulesIdle

ApplyFilters ==
    /\ pc = "records"
    /\ kept_records' = _apply_filters_to_records(universe_records, filters)
    /\ pc' = "done"
    /\ UNCHANGED <<candidate, universe_records, filters, scored_list, selected_list,
                   rankVars, valuationVars, returnVars, statementVars, marketVars, calendarVars, serviceVars, rulesVars>>

FiltersNext == ApplyFilters

SpecFilters == FiltersInit /\ [][FiltersNext]_vars

\* the enabled rules are the pair, and neither industry nor cap filters
PairApplied(logic) ==
    /\ filters # None
    /\ SelectSeq(filters.customRules, LAMBDA r : r.enabled) = PairRules
    /\ filters.industry = ""
    /\ filters.cap \in {"all", ""}
    /\ filters.ruleLogic \in logic

\* the record's pe is a finite number
DefinedPe(rec) == <<"pe">> \in DOMAIN rec.metrics /\ rec.metrics[<<"pe">>].kind = "num"

\* C14: with the enabled rules {pe < 0} and {pe > 0}, no record passes under
\* AND, and under OR exactly the records with a defined pe pass.
C14_PairOfRules ==
    pc = "done" =>
        /\ PairApplied({"AND", ""}) => kept_records = <<>>
        /\ PairApplied({"OR"}) => kept_records = SelectSeq(universe_records, DefinedPe)

\* C14, with the pe of 0 set apart: with the enabled rules {pe < 0} and {pe > 0},
\* no record passes under AND, and under OR exactly the records with a defined
\* pe other than 0 pass.
C14_PairOfRulesNonZero ==
    pc = "done" =>
        /\ PairApplied({"AND", ""}) => kept_records = <<>>
        /\ PairApplied({"OR"}) =>
              kept_records = SelectSeq(universe_records,
                                       LAMBDA rec : DefinedPe(rec)
                                                    /\ rec.metrics[<<"pe">>].v # R(0))

\* OR over a record with a negative pe, kept, and one with a pe of 0, dropped
C14_Witness ==
    /\ pc = "done"
    /\ PairApplied({"OR"})
    /\ Len(universe_records) = 2
    /\ DefinedPe(universe_records[1])
    /\ RLt(universe_records[1].metrics[<<"pe">>].v, R(0))
    /\ DefinedPe(universe_records[2])
    /\ universe_records[2].metrics[<<"pe">>].v = R(0)
    /\ kept_records = <<universe_records[1]>>

-----------------------------------------------------------------------------
(* SpecRule: _matches_custom_rule on one metrics dict and one rule.  filters
   holds the metrics and the rule without its operator; the rule is tested
   under every operator that accepts its value (float(rule.value) is
   evaluated, outside any try, by every operator but between). *)

MaxUnpacked == 3

Operators == {"<", "<=", ">", ">=", "=", "!=", "between"}

MetricValues ==
    {Num(R(1)), Num(Rat(201, 200)), Num(Rat(101, 100)), Num(R(3)), Num(R(-1)), NumText(R(1)),
     NoneValue, TextValue, InfValue, NanValue}

RuleMetricsChoices ==
    {<<>>}
    \cup {[k \in {<<"pe">>} |-> v] : v \in MetricValues}
    \cup {[k \in {<<"profitability">>} |-> DictValue([c \in {"roe"} |-> v])] :
             v \in {Num(Rat(201, 200)), Num(R(3)), NoneValue, NanValue}}
    \cup {[k \in {<<"profitability">>} |-> Num(R(1))],
          [k \in {<<"profitability">>} |-> DictValue(<<>>)],
          [k \in {<<"profitability">>, <<"profitability", "roe">>} |->
              IF k = <<"profitability">> THEN DictValue([c \in {"roe"} |-> Num(R(3))])
              ELSE NoneValue],
          [k \in {<<"profitability">>, <<"profitability", "roe">>} |->
              IF k = <<"profitability">> THEN DictValue([c \in {"roe"} |-> NoneValue])
              ELSE Num(R(1))]}

RuleKeys == {<<"pe">>, <<"profitability", "roe">>, <<"profitability", "roe", "ttm">>}

\* what a between rule may carry: a pair, a list of another length, a string, a scalar
UnpackedValues == {Num(R(1)), Num(R(3)), NumText(R(3)), TextValue, NoneValue}
RuleValues ==
    {Num(R(1)), NumText(R(1)), NoneValue, TextValue}
    \cup {ListValue(items) : items \in SeqsUpTo(UnpackedValues, MaxUnpacked)}
    \cup {StrValue(<<NumText(R(1)), NumText(R(3))>>), StrValue(<<TextValue, TextValue>>)}

RuleInit ==
    /\ pc = "rule"
    /\ filters \in [metrics : RuleMetricsChoices, metric : RuleKeys, value : RuleValues,
                    enabled : BOOLEAN]
    /\ kept_records = None
    /\ candidate = None /\ universe_records = None /\ scored_list = None /\ selected_list = None
    /\ RankIdle
    /\ RatiosIdle
    /\ ReturnIdle
    /\ StatementIdle
    /\ MarketIdle
    /\ CalendarIdle
    /\ ServiceIdle
    /\ RulesIdle

\* the operators whose evaluation of rule.value cannot raise
AcceptedOperators == IF float_ok(filters.value) THEN Operators ELSE {"between"}

MatchRule ==
    /\ pc = "rule"
    /\ kept_records' =
           [op \in AcceptedOperators |->
               _matches_custom_rule(filters.metrics,
                                    Rule(filters.metric, op, filters.value, filters.enabled))]
    /\ pc' = "done"
    /\ UNCHANGED <<candidate, universe_records, filters, scored_list, selected_list,
                   rankVars, valuationVars, returnVars, statementVars, marketVars, calendarVars, serviceVars, rulesVars>>

RuleNext == MatchRule

SpecRule == RuleInit /\ [][RuleNext]_vars

\* the value the rule's metric names: the top-level key, else parent.child
Looked ==
    LET m == filters.metrics
        k == filters.metric
    IN  IF k \in DOMAIN m THEN m[k]
        ELSE IF Len(k) = 2 /\ <<k[1]>> \in DOMAIN m /\ m[<<k[1]>>].kind = "dict"
                /\ k[2] \in DOMAIN m[<<k[1]>>].items
             THEN m[<<k[1]>>].items[k[2]]
             ELSE NoneValue

\* a 2-element pair of numbers (as float() reads them)
NumericPair(x) ==
    /\ x.kind \in {"list", "str"}
    /\ Len(x.items) = 2
    /\ \A i \in 1..2 : x.items[i].kind \in {"num", "numtext"}

-----------------------------------------------------------------------------
(* SpecBacktest: one request of backtest_sector, from the calendar to the
   summary.  The tables hold a few years of records of the sector's symbols
   AAA and BBB (and of ZZZ, a symbol of another sector); table rows are dated
   by day number.  From its 2022 statement on, AAA holds more cash than its
   market cap. *)

MaxYears == 3
MaxHolding == 2

\* the ranges of years and holding_years of BacktestSectorRequest
YearsLimit == 30
HoldingLimit == 3

Day(y, m, d) == toordinal(<<y, m, d>>)

TodayChoices == {<<2024, 2, 29>>, <<2024, 2, 28>>, <<2025, 2, 28>>, <<2024, 3, 1>>}
LagChoices == {0, 90, 365}

StatementsOf(sym, day, revenue, eps, equity) ==
    {StatementRow(sym, day, "income_statement", "total_revenue", revenue),
     StatementRow(sym, day, "income_statement", "diluted_eps", eps),
     StatementRow(sym, day, "balance_sheet", "stockholders_equity", equity)}

FullStatements ==
    StatementsOf("AAA", Day(2020, 12, 31), R(100), R(1), R(50))
    \cup StatementsOf("AAA", Day(2022, 12, 31), R(120), R(2), R(60))
    \cup {StatementRow("AAA", Day(2022, 12, 31), "income_statement", "ebit", R(10)),
          StatementRow("AAA", Day(2022, 12, 31), "balance_sheet",
                       "cash_and_cash_equivalents", R(5000))}
    \cup StatementsOf("BBB", Day(2021, 12, 31), R(200), R(3), R(40))

StatementChoices ==
    {FullStatements,
     FullStatements \ {StatementRow("BBB", Day(2021, 12, 31), "balance_sheet",
                                    "stockholders_equity", R(40))},
     FullStatements \cup StatementsOf("ZZZ", Day(2019, 6, 30), R(10), R(1), R(5)),
     {}}

PriceRow(sym, day, close) == [symbol |-> sym, report_date |-> day, close |-> close]

PricesOfAAA ==
    {PriceRow("AAA", Day(2020, 1, 15), R(8)), PriceRow("AAA", Day(2021, 1, 15), R(10)),
     PriceRow("AAA", Day(2022, 1, 14), R(12)), PriceRow("AAA", Day(2023, 1, 13), R(15)),
     PriceRow("AAA", Day(2024, 1, 12), R(18)), PriceRow("AAA", Day(2025, 1, 15), R(20))}

PricesOfBBB(close_2023) ==
    {PriceRow("BBB", Day(2022, 1, 14), R(30)), PriceRow("BBB", Day(2023, 1, 13), close_2023),
     PriceRow("BBB", Day(2024, 1, 12), R(36)), PriceRow("BBB", Day(2025, 1, 15), R(27))}

PriceChoices ==
    {PricesOfAAA \cup PricesOfBBB(R(33)),
     PricesOfAAA \cup PricesOfBBB(R(0)),
     PricesOfBBB(R(33))}

BacktestShares ==
    {[symbol |-> "AAA", report_date |-> Day(2020, 6, 30), shares_outstanding |-> R(10)],
     [symbol |-> "BBB", report_date |-> Day(2021, 6, 30), shares_outstanding |-> R(5)],
     [symbol |-> "BBB", report_date |-> Day(2023, 6, 30), shares_outstanding |-> R(0)]}

BacktestDividends ==
    {[symbol |-> "AAA", report_date |-> Day(2022, 6, 30), amount |-> R(1)]}

EtfRow(day, adj_close) == [date |-> day, adj_close |-> adj_close]

\* the series of the benchmark: none, one that starts at zero, and one whose
\* 2022 return equals the return of AAA
EtfChoices ==
    {<<>>,
     <<EtfRow(Day(2020, 1, 2), R(0)), EtfRow(Day(2022, 1, 3), R(300)),
       EtfRow(Day(2023, 1, 3), R(330)), EtfRow(Day(2024, 1, 2), R(300))>>,
     <<EtfRow(Day(2020, 1, 2), R(200)), EtfRow(Day(2021, 1, 4), R(250)),
       EtfRow(Day(2022, 1, 3), R(300)), EtfRow(Day(2023, 1, 3), R(400)),
       EtfRow(Day(2024, 1, 2), R(420)), EtfRow(Day(2025, 1, 2), R(630))>>}

NoRules == [pe_positive |-> FALSE, pe_below_universe_mean |-> FALSE, fundamental_rules |-> <<>>]

BacktestRequests ==
    {[years |-> y, holding_years |-> h, fundamentals_lag_days |-> lag, top_n |-> t[1],
      rules |-> t[2], weights |-> [k \in ComponentNames |-> None], filters |-> None,
      sector |-> "Technology"] :
        y \in 1..MaxYears, h \in 1..MaxHolding, lag \in LagChoices,
        t \in {<<1, DefaultRules>>, <<2, NoRules>>}}

BacktestInit ==
    /\ pc = "request"
    /\ today \in TodayChoices
    /\ payload \in BacktestRequests
    /\ stock_statement \in StatementChoices
    /\ stock_prices \in PriceChoices
    /\ stock_shares_outstanding = BacktestShares
    /\ stock_split_events = {}
    /\ stock_dividend_events = BacktestDividends
    /\ etf_prices \in EtfChoices
    /\ min_stmt = None /\ as_of_dates = <<>> /\ points = <<>> /\ summary = None
    /\ win_count = 0 /\ valid_point_count = 0 /\ turn = 0
    /\ runs = <<>> /\ cutoff = None /\ aligned = None
    /\ RankIdle
    /\ RatiosIdle
    /\ ReturnIdle
    /\ ScreenIdle
    /\ ServiceIdle
    /\ RulesIdle

backtestFixed == <<today, payload, stock_statement, stock_prices, stock_shares_outstanding,
                   stock_split_events, stock_dividend_events, etf_prices, runs, cutoff,
                   aligned, rankVars, valuationVars, returnVars, screenVars, serviceVars, rulesVars>>

\* lines 2546-2565 and 2605-2607
BuildCalendar ==
    /\ pc = "request"
    /\ min_stmt' = _min_annual_statement_date(stock_statement)
    /\ as_of_dates' = build_calendar(today, payload.years, payload.holding_years,
                                     payload.fundamentals_lag_days,
                                     _min_annual_statement_date(stock_statement))
    /\ points' = <<>>
    /\ win_count' = 0
    /\ valid_point_count' = 0
    /\ turn' = 1
    /\ pc' = "loop"
    /\ UNCHANGED <<summary, backtestFixed>>

\* lines 3089-3090
counts_as_valid(point) ==
    /\ ~is_note_point(point)
    /\ point.portfolio_total_return # None
    /\ point.benchmark_total_return # None

\* lines 3089-3092
counts_as_win(point) ==
    /\ counts_as_valid(point)
    /\ is_win(point.portfolio_total_return, point.benchmark_total_return)

\* one turn of the loop of lines 2609-3111
EvaluatePoint ==
    /\ pc = "loop"
    /\ turn <= Len(as_of_dates)
    /\ IF toordinal(_shift_years(as_of_dates[turn], payload.holding_years)) > toordinal(today)
       THEN UNCHANGED <<points, win_count, valid_point_count>>
       ELSE \E point \in {backtest_point(Database, SectorSymbols, payload, etf_prices,
                                         as_of_dates[turn], payload.holding_years)} :
                /\ points' = Append(points, point)
                /\ valid_point_count' =
                       IF counts_as_valid(point) THEN valid_point_count + 1
                       ELSE valid_point_count
                /\ win_count' = IF counts_as_win(point) THEN win_count + 1 ELSE win_count
    /\ turn' = turn + 1
    /\ UNCHANGED <<pc, min_stmt, as_of_dates, summary, backtestFixed>>

\* lines 3118-3130
Summarize ==
    /\ pc = "loop"
    /\ turn > Len(as_of_dates)
    /\ summary' = build_summary(points, win_count, valid_point_count)
    /\ pc' = "done"
    /\ UNCHANGED <<min_stmt, as_of_dates, points, win_count, valid_point_count, turn,
                   backtestFixed>>

BacktestNext ==
    \/ BuildCalendar
    \/ EvaluatePoint
    \/ Summarize

SpecBacktest == BacktestInit /\ [][BacktestNext]_vars

\* C16: when the earliest annual statement date is known, every as_of of the
\* calendar, and so every point of data[], has as_of - fundamentals_lag_days
\* on or after that date.
C16_CutoffNotBeforeMinimum ==
    (pc \in {"loop", "done"} /\ min_stmt # None) =>
        /\ \A k \in DOMAIN as_of_dates :
               toordinal(as_of_dates[k]) - payload.fundamentals_lag_days >= min_stmt[1]
        /\ \A k \in DOMAIN points :
               points[k].as_of - payload.fundamentals_lag_days >= min_stmt[1]

\* a finished request whose calendar lost a year to the guard and kept another
C16_Witness ==
    /\ pc = "done"
    /\ min_stmt # None
    /\ points # <<>>
    /\ payload.years >= payload.holding_years
    /\ Len(as_of_dates) < payload.years - payload.holding_years + 1

\* C17: for every today and every i with holding_years <= i <= years, the end
\* of the holding period that starts at _shift_years(today, -i) is not after
\* today; so every point has end_date <= today and the loop skips no as_of.
C17_ForwardWindowObservable ==
    /\ \A h \in 1..HoldingLimit : \A i \in h..YearsLimit :
           toordinal(_shift_years(_shift_years(today, -i), h)) <= toordinal(today)
    /\ pc \in {"loop", "done"} =>
           /\ \A k \in DOMAIN points : points[k].end_date <= toordinal(today)
           /\ Len(points) = turn - 1
    /\ pc = "done" => Len(points) = Len(as_of_dates)

\* a finished request of a Feb 29 with points, one of them starting on a Feb 28
C17_Witness ==
    /\ pc = "done"
    /\ today = <<2024, 2, 29>>
    /\ Len(points) >= 2
    /\ \E k \in DOMAIN points : points[k].as_of = Day(2023, 2, 28)

\* the years i of the calendar whose as_of passes the minimum-date guard
GuardedYears ==
    {i \in payload.holding_years..payload.years :
        min_stmt = None
        \/ toordinal(_shift_years(today, -i)) - payload.fundamentals_lag_days >= min_stmt[1]}

\* C18: data[] of a finished request is strictly ascending by as_of and holds
\* exactly one point for each i in [holding_years, years] whose as_of passes the
\* minimum-date guard (at most years - holding_years + 1, none when years <
\* holding_years); each point is what its own as_of, the tables and the request
\* give, whatever the other points are.
C18_OnePointPerYear ==
    pc = "done" =>
        /\ \A j, k \in DOMAIN points : j < k => points[j].as_of < points[k].as_of
        /\ Len(points) = Cardinality(GuardedYears)
        /\ {points[k].as_of : k \in DOMAIN points}
               = {toordinal(_shift_years(today, -i)) : i \in GuardedYears}
        /\ payload.years >= payload.holding_years =>
               Len(points) <= payload.years - payload.holding_years + 1
        /\ payload.years < payload.holding_years => points = <<>>
        /\ \A k \in DOMAIN points :
               points[k] = backtest_point(Database, SectorSymbols, payload, etf_prices,
                                          as_of_dates[k], payload.holding_years)

\* a finished request with several points and a year dropped by the guard
C18_Witness ==
    /\ pc = "done"
    /\ Len(points) >= 2
    /\ Len(points) < payload.years - payload.holding_years + 1

BothDefined(point) ==
    /\ point_get(point, "portfolio_total_return") # None
    /\ point_get(point, "benchmark_total_return") # None

\* the sum of a field over the first n points, where it is defined
RECURSIVE SumOfField(_, _)
SumOfField(name, n) ==
    IF n = 0 THEN R(0)
    ELSE RAdd(SumOfField(name, n - 1),
              IF point_get(points[n], name) # None THEN point_get(points[n], name) ELSE R(0))

\* the average of the summary is the mean of the field where it is defined
AverageOver(average, name) ==
    LET defined == {k \in DOMAIN points : point_get(points[k], name) # None}
    IN  IF defined = {} THEN summary[average] = None
        ELSE /\ summary[average] # None
             /\ RMul(summary[average], R(Cardinality(defined))) = SumOfField(name, Len(points))

\* C19: points_with_returns counts the points with both returns defined; a
\* point wins iff both are defined and the portfolio's is greater; win_rate is
\* wins / points_with_returns, within [0, 1], and None without such a point;
\* each average is the mean over the points that define the value, or None.
C19_Summary ==
    pc = "done" =>
        LET valid == {k \in DOMAIN points : BothDefined(points[k])}
            wins == {k \in valid : RLt(points[k].benchmark_total_return,
                                       points[k].portfolio_total_return)}
        IN  /\ summary.points_with_returns = Cardinality(valid)
            /\ IF valid = {} THEN summary.win_rate = None
               ELSE /\ summary.win_rate = Rat(Cardinality(wins), Cardinality(valid))
                    /\ RLe(R(0), summary.win_rate)
                    /\ RLe(summary.win_rate, R(1))
            /\ AverageOver("avg_portfolio_return", "portfolio_total_return")
            /\ AverageOver("avg_benchmark_return", "benchmark_total_return")
            /\ AverageOver("avg_industry_return", "industry_avg_return")
            /\ AverageOver("avg_industry_return_raw", "industry_avg_return_raw")

\* a finished request with a tie, a win and a point that defines no return
C19_Witness ==
    /\ pc = "done"
    /\ \E k \in DOMAIN points :
           /\ BothDefined(points[k])
           /\ points[k].portfolio_total_return = points[k].benchmark_total_return
    /\ \E k \in DOMAIN points :
           /\ BothDefined(points[k])
           /\ RLt(points[k].benchmark_total_return, points[k].portfolio_total_return)
    /\ \E k \in DOMAIN points : point_get(points[k], "portfolio_total_return") = None
    /\ summary.win_rate # None

\* the latest row of a table for a symbol, dated on or before a day
LatestRows(table, sym, day) ==
    {r \in table : /\ r.symbol = sym
                   /\ r.report_date <= day
                   /\ \A q \in table :
                          (q.symbol = sym /\ q.report_date <= day) =>
                              q.report_date <= r.report_date}

\* the symbols of the sector with usable aligned fundamentals at a day's cutoff
WithFundamentals(day) ==
    {sym \in {SectorSymbols[i] : i \in DOMAIN SectorSymbols} :
        is_eligible(_query_latest_annual_items_aligned(
                        stock_statement, {SectorSymbols[i] : i \in DOMAIN SectorSymbols},
                        day - payload.fundamentals_lag_days, income_items, balance_items),
                    sym)}

\* those of them with a positive price at the day and a positive share count
\* at the cutoff
Usable(day) ==
    {sym \in WithFundamentals(day) :
        /\ \E r \in LatestRows(stock_prices, sym, day) : RLt(R(0), r.close)
        /\ \E r \in LatestRows(stock_shares_outstanding, sym,
                               day - payload.fundamentals_lag_days) :
               RLt(R(0), r.shares_outstanding)}

\* C20: a point without a usable symbol is appended with universe_size 0, no
\* selection and a note; the loop goes on to the remaining dates and the
\* request ends with a summary to which such a point adds nothing; at any
\* other point the candidates are exactly the usable symbols.
C20_SparsePointsStillEmitted ==
    /\ pc \in {"loop", "done"} =>
           /\ Len(points) = turn - 1
           /\ \A k \in DOMAIN points :
                  IF Usable(points[k].as_of) = {}
                  THEN /\ is_note_point(points[k])
                       /\ points[k].universe_size = 0
                       /\ points[k].selected = <<>>
                       /\ points[k].note # ""
                  ELSE /\ ~is_note_point(points[k])
                       /\ points[k].universe_size = Cardinality(Usable(points[k].as_of))
                       /\ \A n \in DOMAIN points[k].selected :
                              points[k].selected[n].symbol \in Usable(points[k].as_of)
    /\ pc = "done" =>
           /\ Len(points) = Len(as_of_dates)
           /\ summary.points = Len(points)
           /\ summary.points_with_returns
                  <= Cardinality({k \in DOMAIN points : ~is_note_point(points[k])})
           /\ summary = [build_summary(SelectSeq(points, LAMBDA point : ~is_note_point(point)),
                                       win_count, valid_point_count)
                         EXCEPT !.points = Len(points)]

\* a finished request whose first point found no fundamentals, whose second
\* found no price, and whose third left a symbol out and selected another
C20_Witness ==
    /\ pc = "done"
    /\ Len(points) >= 3
    /\ WithFundamentals(points[1].as_of) = {}
    /\ is_note_point(points[1])
    /\ WithFundamentals(points[2].as_of) # {}
    /\ is_note_point(points[2])
    /\ points[1].note # points[2].note
    /\ ~is_note_point(points[3])
    /\ points[3].selected # <<>>
    /\ points[3].universe_size < Cardinality(WithFundamentals(points[3].as_of))

\* C21: a point whose universe is not empty and whose rules pass no candidate
\* is in data[] with filtered_size 0 and a populated note, and does not count
\* in the denominator of win_rate.
C21_EmptyFilterPointHasNote ==
    pc \in {"loop", "done"} =>
        \A k \in DOMAIN points :
            (points[k].universe_size > 0 /\ points[k].filtered_size = 0) =>
                /\ point_get(points[k], "note") # None
                /\ points[k].note # ""
                /\ ~counts_as_valid(points[k])

-----------------------------------------------------------------------------
(* main._duckdb_query_with_retry (lines 1003-1025).  An exception is
   [http_429, too_many_requests, at]: whether its message holds 'HTTP 429',
   whether it holds 'Too Many Requests', and the attempt that raised it. *)

\* a test that knows 'HTTP 429' only
is_429_http_only(exc) == exc.http_429

\* line 1016
is_429(exc) == exc.http_429 \/ exc.too_many_requests

\* a delay without the cap
sleep_s_uncapped(attempt_no, jitter) == RAdd(R(2 ^ (attempt_no - 1)), jitter)

\* line 1020: min(30.0, (2 ** (attempt - 1)) + random.uniform(0.0, 0.5))
sleep_s(attempt_no, jitter) == RMin(R(30), RAdd(R(2 ^ (attempt_no - 1)), jitter))

(* SpecRetry: one call of _duckdb_query_with_retry; the remote query of each
   attempt returns or raises, and the jitter is drawn from [0, 0.5]. *)

MaxAttempts == 7

Messages == {[http_429 |-> h, too_many_requests |-> t] : h, t \in BOOLEAN}
Jitters == {R(0), Rat(1, 4), Rat(1, 2)}

RetryInit ==
    /\ pc = "query"
    /\ max_attempts \in 1..MaxAttempts
    /\ attempt = 0
    /\ last_exc = None
    /\ sleeps = <<>>
    /\ query_outcome = None
    /\ lookups = <<>> /\ response = None
    /\ RulesIdle
    /\ RankIdle
    /\ RatiosIdle
    /\ ReturnIdle
    /\ StatementIdle
    /\ MarketIdle
    /\ ScreenIdle
    /\ CalendarIdle

retryFixed == <<max_attempts, lookups, response, rulesVars, rankVars, valuationVars, returnVars, statementVars, marketVars,
                screenVars, calendarVars>>

\* lines 1011-1013: the query of the attempt returns
QueryReturns ==
    /\ pc = "query"
    /\ attempt < max_attempts
    /\ attempt' = attempt + 1
    /\ query_outcome' = [kind |-> "returned", attempt |-> attempt + 1]
    /\ pc' = "done"
    /\ UNCHANGED <<last_exc, sleeps, retryFixed>>

\* lines 1014-1025: the query of the attempt raises exc
QueryRaises(msg, jitter) ==
    /\ pc = "query"
    /\ attempt < max_attempts
    /\ attempt' = attempt + 1
    /\ \E exc \in {[http_429 |-> msg.http_429, too_many_requests |-> msg.too_many_requests,
                    at |-> attempt + 1]} :
           /\ last_exc' = exc
           /\ IF ~is_429(exc) \/ attempt + 1 >= max_attempts
              THEN /\ query_outcome' = [kind |-> "raised", exc |-> exc]
                   /\ pc' = "done"
                   /\ UNCHANGED sleeps
              ELSE /\ sleeps' = Append(sleeps, sleep_s(attempt + 1, jitter))
                   /\ UNCHANGED <<pc, query_outcome>>
    /\ UNCHANGED retryFixed

RetryNext ==
    \/ QueryReturns
    \/ \E msg \in Messages, jitter \in Jitters : QueryRaises(msg, jitter)

\* a query returns or raises, and a sleep ends
SpecRetry == RetryInit /\ [][RetryNext]_vars /\ WF_vars(RetryNext)

RateLimit(exc) == exc.http_429 \/ exc.too_many_requests

\* the delay before retry k: 2^(k-1) plus a jitter in [0, 0.5], at most 30
DelayOfRetry(k, delay) ==
    IF 2 ^ (k - 1) >= 30 THEN delay = R(30)
    ELSE /\ RLe(R(2 ^ (k - 1)), delay)
         /\ RLe(delay, RAdd(R(2 ^ (k - 1)), Rat(1, 2)))
         /\ RLe(delay, R(30))

RetryDiscipline ==
    /\ attempt <= max_attempts
    /\ Len(sleeps) <= max_attempts - 1
    /\ \A k \in DOMAIN sleeps : DelayOfRetry(k, sleeps[k])
    /\ (pc = "query" /\ attempt >= 1) =>
           /\ last_exc # None
           /\ last_exc.at = attempt
           /\ RateLimit(last_exc)
           /\ attempt < max_attempts
           /\ Len(sleeps) = attempt
    /\ (pc = "done") =>
           /\ query_outcome # None
           /\ Len(sleeps) = attempt - 1
           /\ query_outcome.kind = "returned" =>
                  /\ query_outcome.attempt = attempt
                  /\ attempt > 1 => (RateLimit(last_exc) /\ last_exc.at = attempt - 1)
           /\ query_outcome.kind = "raised" =>
                  /\ query_outcome.exc = last_exc
                  /\ last_exc.at = attempt
                  /\ RateLimit(last_exc) => attempt = max_attempts

\* C25: a call issues at most max_attempts queries and ends with the first
\* result or a raised error; another attempt follows only a rate-limit failure
\* with attempts left; any other failure is raised at once, unslept; there are
\* at most max_attempts - 1 sleeps, the k-th of 2^(k-1) seconds plus a jitter
\* in [0, 0.5], at most 30; after exhaustion the last rate-limit error is raised.
C25_RetryDiscipline == []RetryDiscipline /\ <>(pc = "done")

\* a call that ran out of attempts after a capped sleep
C25_Witness ==
    /\ pc = "done"
    /\ query_outcome.kind = "raised"
    /\ RateLimit(query_outcome.exc)
    /\ attempt = max_attempts
    /\ Len(sleeps) >= 6
    /\ sleeps[6] = R(30)


-----------------------------------------------------------------------------
(* SpecService: the control flow of one request of backtest_sector, with the
   remote lookups it issues and the response it sends.  A remote lookup
   returns, or raises after _duckdb_query_with_retry gave up: on a rate limit
   ("rate_limited", the last 429 error) or on another failure ("error").  An
   exception that leaves the handler is answered by the framework with its
   generic 500 response.  What the lookups return is drawn at each step. *)

MaxServiceYears == 2

\* the sectors of sector-metrics.json with their symbols; Energy lists none
SectorFile == [Technology |-> <<"AAA", "BBB">>, Energy |-> <<>>]

\* the benchmarks of etf-prices.json
EtfFile == {"SPY", "QQQ"}

\* str.strip() and str.upper() on the texts of the requests
strip(text) ==
    CASE text = " " -> ""
      [] text = " Technology " -> "Technology"
      [] OTHER -> text
upper(text) == IF text = "spy" THEN "SPY" ELSE text

SectorTexts == {"", " ", "Technology", " Technology ", "Energy", "Nowhere"}
BenchmarkTexts == {"", "spy", "QQQ", "XXX"}

\* lines 2531 and 2535-2536
sector_symbols_of(text) ==
    IF strip(text) \in DOMAIN SectorFile THEN SectorFile[strip(text)] ELSE <<>>

\* line 2542
benchmark_of(text) == upper(strip(IF text # "" THEN text ELSE "SPY"))

\* a between rule on a supported metric, with a pair or with a malformed value
BetweenRule(value) == Rule(<<"peRatioTTM">>, "between", value, TRUE)
WellFormedPair == ListValue(<<Num(R(5)), Num(R(20))>>)
MalformedValues == {Num(R(5)), ListValue(<<Num(R(5))>>), ListValue(<<Num(R(5)), TextValue>>)}

ServiceFilters ==
    {None}
    \cup {[industry |-> "", cap |-> "all", ruleLogic |-> "AND",
           customRules |-> <<BetweenRule(v)>>] : v \in {WellFormedPair} \cup MalformedValues}

malformed_between(screen) ==
    /\ screen # None
    /\ \E i \in DOMAIN screen.customRules :
           /\ screen.customRules[i].operator = "between"
           /\ screen.customRules[i].value \in MalformedValues

\* the records a turn may build, with the metrics dict of line 2794
ServiceRecords ==
    {<<>>,
     <<[symbol |-> "AAA", market_cap |-> R(3000),
        metrics |-> [k \in {<<"peRatioTTM">>} |-> Num(R(12))]]>>}

ServiceInit ==
    /\ pc = "validate"
    /\ payload \in [sector : SectorTexts, benchmark : BenchmarkTexts,
                    years : 1..MaxServiceYears, filters : ServiceFilters]
    /\ min_stmt \in {[cached |-> FALSE], [cached |-> TRUE]}
    /\ as_of_dates = <<>> /\ points = <<>> /\ turn = 0
    /\ universe_records = <<>> /\ kept_records = <<>>
    /\ lookups = <<>> /\ response = None /\ last_exc = None
    /\ today = None /\ summary = None /\ etf_prices = None
    /\ win_count = 0 /\ valid_point_count = 0
    /\ candidate = None /\ filters = None /\ scored_list = None /\ selected_list = None
    /\ max_attempts = 0 /\ attempt = 0 /\ sleeps = <<>> /\ query_outcome = None
    /\ stock_prices = {} /\ stock_shares_outstanding = {} /\ stock_split_events = {}
    /\ stock_dividend_events = {} /\ runs = <<>>
    /\ RulesIdle
    /\ RankIdle
    /\ RatiosIdle
    /\ ReturnIdle
    /\ StatementIdle

serviceFixed == <<payload, today, summary, etf_prices, win_count, valid_point_count,
                  candidate, filters, scored_list, selected_list, max_attempts, attempt,
                  sleeps, query_outcome, stock_prices, stock_shares_outstanding,
                  stock_split_events, stock_dividend_events, runs, rankVars, valuationVars,
                  returnVars, statementVars, rulesVars>>

HttpError(status) == [status |-> status]

\* lines 2531-2545: the checks of the sector and of the benchmark
Validate ==
    /\ pc = "validate"
    /\ IF strip(payload.sector) = "" THEN response' = HttpError(400) /\ pc' = "responded"
       ELSE IF sector_symbols_of(payload.sector) = <<>>
            THEN response' = HttpError(404) /\ pc' = "responded"
       ELSE IF benchmark_of(payload.benchmark) \notin EtfFile
            THEN response' = HttpError(400) /\ pc' = "responded"
       ELSE response' = response /\ pc' = "min_stmt"
    /\ UNCHANGED <<min_stmt, as_of_dates, points, turn, universe_records, kept_records,
                   lookups, last_exc, serviceFixed>>

\* a remote lookup raises inside the try of lines 2665-2679
RaisesInsideTry(name, kind) ==
    /\ lookups' = Append(lookups, name)
    /\ last_exc' = [lookup |-> name, kind |-> kind]
    /\ response' = IF kind = "rate_limited" THEN HttpError(429) ELSE HttpError(500)
    /\ pc' = "responded"

\* a remote lookup raises where no handler of backtest_sector catches it
RaisesUncaught(name, kind) ==
    /\ lookups' = Append(lookups, name)
    /\ last_exc' = [lookup |-> name, kind |-> kind]
    /\ response' = HttpError(500)
    /\ pc' = "responded"

Returns(name) ==
    /\ lookups' = Append(lookups, name)
    /\ UNCHANGED <<last_exc, response>>

Results == {"ok", "rate_limited", "error"}

\* lines 2552-2565 and 2605-2607: _min_annual_statement_date() behind its
\* lru_cache, then the calendar
MinStatementDate(result) ==
    /\ pc = "min_stmt"
    /\ IF min_stmt.cached
       THEN /\ result = "ok"
            /\ UNCHANGED <<lookups, last_exc, response, min_stmt>>
            /\ pc' = "turn"
       ELSE IF result = "ok"
            THEN Returns("min_stmt") /\ min_stmt' = [cached |-> TRUE] /\ pc' = "turn"
            ELSE RaisesUncaught("min_stmt", result) /\ UNCHANGED min_stmt
    /\ as_of_dates' = [k \in 1..payload.years |-> k]
    /\ turn' = 1
    /\ UNCHANGED <<points, universe_records, kept_records, serviceFixed>>

NotePoint(note) == [universe_size |-> 0, selected |-> <<>>, note |-> note]

\* lines 2609-2663: the aligned fundamentals of the turn
AlignedFundamentals(result, eligible) ==
    /\ pc = "turn"
    /\ turn <= Len(as_of_dates)
    /\ IF result = "ok"
       THEN /\ Returns("aligned")
            /\ IF eligible
               THEN pc' = "prices" /\ UNCHANGED <<points, turn>>
               ELSE /\ points' = Append(points, NotePoint("no fundamentals"))
                    /\ turn' = turn + 1
                    /\ UNCHANGED pc
       ELSE RaisesUncaught("aligned", result) /\ UNCHANGED <<points, turn>>
    /\ UNCHANGED <<min_stmt, as_of_dates, universe_records, kept_records, serviceFixed>>

\* lines 2665-2666
StartPrices(result) ==
    /\ pc = "prices"
    /\ IF result = "ok" THEN Returns("prices") /\ pc' = "shares"
       ELSE RaisesInsideTry("prices", result)
    /\ UNCHANGED <<min_stmt, as_of_dates, points, turn, universe_records, kept_records,
                   serviceFixed>>

\* lines 2667-2923: the lagged shares, the records, the screen and the selection
LaggedShares(result, recs) ==
    /\ pc = "shares"
    /\ IF result = "ok"
       THEN /\ Returns("shares")
            /\ universe_records' = recs
            /\ IF recs = <<>>
               THEN /\ points' = Append(points, NotePoint("no price or shares"))
                    /\ turn' = turn + 1
                    /\ pc' = "turn"
                    /\ UNCHANGED kept_records
               ELSE /\ kept_records' = _apply_filters_to_records(
                                           recs, filters_for_backtest(payload.filters))
                    /\ pc' = "end_prices"
                    /\ UNCHANGED <<points, turn>>
       ELSE /\ RaisesInsideTry("shares", result)
            /\ UNCHANGED <<points, turn, universe_records, kept_records>>
    /\ UNCHANGED <<min_stmt, as_of_dates, serviceFixed>>

\* the step after each lookup of lines 2927-3009
StepAfter ==
    [end_prices |-> "splits", splits |-> "dividends", dividends |-> "industry_end_prices",
     industry_end_prices |-> "industry_splits", industry_splits |-> "industry_dividends"]

\* lines 2927-2929: end prices, split events and dividend events of the selected
\* symbols; no query is issued for an empty list (lines 1029, 1166 and 1207)
SelectedLookup(name, result) ==
    /\ pc = name
    /\ IF kept_records = <<>>
       THEN result = "ok" /\ pc' = StepAfter[name] /\ UNCHANGED <<lookups, last_exc, response>>
       ELSE IF result = "ok" THEN Returns(name) /\ pc' = StepAfter[name]
       ELSE RaisesUncaught(name, result)
    /\ UNCHANGED <<min_stmt, as_of_dates, points, turn, universe_records, kept_records,
                   serviceFixed>>

\* lines 2993 and 3009: end prices and split events of the symbols of records,
\* which are not empty here
IndustryLookup(name, result) ==
    /\ pc = name
    /\ IF result = "ok" THEN Returns(name) /\ pc' = StepAfter[name]
       ELSE RaisesUncaught(name, result)
    /\ UNCHANGED <<min_stmt, as_of_dates, points, turn, universe_records, kept_records,
                   serviceFixed>>

\* lines 3026-3111: the last lookup of the turn and the point
IndustryDividends(result) ==
    /\ pc = "industry_dividends"
    /\ IF result = "ok"
       THEN /\ Returns("industry_dividends")
            /\ points' = Append(points, [universe_size |-> Len(universe_records),
                                         filtered_by_filters_size |-> Len(kept_records),
                                         selected |-> kept_records])
            /\ turn' = turn + 1
            /\ pc' = "turn"
       ELSE RaisesUncaught("industry_dividends", result) /\ UNCHANGED <<points, turn>>
    /\ UNCHANGED <<min_stmt, as_of_dates, universe_records, kept_records, serviceFixed>>

\* lines 3118-3147: the summary and the response
Respond ==
    /\ pc = "turn"
    /\ turn > Len(as_of_dates)
    /\ response' = [status |-> 200, data |-> points]
    /\ pc' = "responded"
    /\ UNCHANGED <<min_stmt, as_of_dates, points, turn, universe_records, kept_records,
                   lookups, last_exc, serviceFixed>>

ServiceNext ==
    \/ Validate
    \/ \E result \in Results : MinStatementDate(result)
    \/ \E result \in Results, eligible \in BOOLEAN : AlignedFundamentals(result, eligible)
    \/ \E result \in Results : StartPrices(result)
    \/ \E result \in Results, recs \in ServiceRecords : LaggedShares(result, recs)
    \/ \E result \in Results, name \in {"end_prices", "splits", "dividends"} :
           SelectedLookup(name, result)
    \/ \E result \in Results, name \in {"industry_end_prices", "industry_splits"} :
           IndustryLookup(name, result)
    \/ \E result \in Results : IndustryDividends(result)
    \/ Respond

SpecService == ServiceInit /\ [][ServiceNext]_vars

\* C22: a request one of whose remote lookups gave up on a rate limit is
\* answered with the rate-limited error (HTTP 429), never with a generic error
\* and never with data.
C22_RateLimitIsDistinct ==
    (pc = "responded" /\ last_exc # None /\ last_exc.kind = "rate_limited") =>
        response.status = 429

\* C23: a request with a configuration error (a blank or unknown sector, a
\* sector without symbols, a benchmark that is not in the ETF file, a between
\* rule with a malformed value) issues no remote lookup, simulates no point
\* and is answered with an error.
ConfigurationError ==
    \/ strip(payload.sector) = ""
    \/ sector_symbols_of(payload.sector) = <<>>
    \/ benchmark_of(payload.benchmark) \notin EtfFile
    \/ malformed_between(payload.filters)

C23_ConfigurationErrorStopsRequest ==
    ConfigurationError =>
        /\ lookups = <<>>
        /\ points = <<>>
        /\ pc = "responded" => response.status \in {400, 404}

\* C24: every ratio reported in selected[].ratios of a point is None or
\* strictly positive, also for a company whose cash exceeds market cap plus
\* debt.
C24_ReportedRatiosPositive ==
    pc \in {"loop", "done"} =>
        \A k \in DOMAIN points : \A n \in DOMAIN points[k].selected :
            \A name \in ComponentNames :
                \/ points[k].selected[n].ratios[name] = None
                \/ RLt(R(0), points[k].selected[n].ratios[name])


-----------------------------------------------------------------------------
(* SpecScreened: backtest_sector at one rebalance point (lines 2609-3111 and
   3137-3147) for a request with screener filters, sent a second time with
   other rules and the same cap.  Four symbols of the sector are priced on
   day 3; money is in millions, so AAA (12000) and BBB (10000) are large caps
   and CCC (2500) and DDD (3000) mid caps.  DDD has no defined pe; BBB and CCC
   have one or not. *)

ScreenedSymbols == <<"AAA", "BBB", "CCC", "DDD">>

ScreenedStatements(eps_b, eps_c) ==
    {StatementRow("AAA", 1, "income_statement", "total_revenue", R(6000)),
     StatementRow("AAA", 1, "income_statement", "diluted_eps", R(10)),
     StatementRow("AAA", 1, "balance_sheet", "stockholders_equity", R(4000)),
     StatementRow("BBB", 1, "income_statement", "total_revenue", R(2000)),
     StatementRow("BBB", 1, "income_statement", "diluted_eps", eps_b),
     StatementRow("BBB", 1, "balance_sheet", "stockholders_equity", R(5000)),
     StatementRow("CCC", 1, "income_statement", "total_revenue", R(2500)),
     StatementRow("CCC", 1, "income_statement", "diluted_eps", eps_c),
     StatementRow("CCC", 1, "balance_sheet", "stockholders_equity", R(1000)),
     StatementRow("DDD", 1, "income_statement", "total_revenue", R(1000)),
     StatementRow("DDD", 1, "income_statement", "diluted_eps", R(-1)),
     StatementRow("DDD", 1, "balance_sheet", "total_debt", R(500))}

ScreenedPrices ==
    {[symbol |-> "AAA", report_date |-> 3, close |-> R(100)],
     [symbol |-> "AAA", report_date |-> 5, close |-> R(110)],
     [symbol |-> "BBB", report_date |-> 3, close |-> R(50)],
     [symbol |-> "BBB", report_date |-> 5, close |-> R(45)],
     [symbol |-> "CCC", report_date |-> 3, close |-> R(20)],
     [symbol |-> "CCC", report_date |-> 5, close |-> R(30)],
     [symbol |-> "DDD", report_date |-> 3, close |-> R(10)]}

ScreenedShares ==
    {[symbol |-> "AAA", report_date |-> 1, shares_outstanding |-> R(120)],
     [symbol |-> "BBB", report_date |-> 1, shares_outstanding |-> R(200)],
     [symbol |-> "CCC", report_date |-> 1, shares_outstanding |-> R(125)],
     [symbol |-> "DDD", report_date |-> 1, shares_outstanding |-> R(300)]}

\* custom rules on supported metrics, and rules on metrics the backtest lacks
PeUnder22 == Rule(<<"peRatioTTM">>, "<", Num(R(22)), TRUE)
CapAtLeast3000 == Rule(<<"marketCap">>, ">=", Num(R(3000)), TRUE)
YieldOver1 == Rule(<<"dividendYield">>, ">", Num(R(1)), TRUE)
RoeOver5Off == Rule(<<"returnOnEquityTTM">>, ">", Num(R(5)), FALSE)

CustomRuleLists ==
    {<<>>, <<PeUnder22>>, <<YieldOver1>>, <<PeUnder22, YieldOver1>>,
     <<YieldOver1, CapAtLeast3000, RoeOver5Off, YieldOver1>>}

ScreenedRules ==
    {DefaultRules, NoRules,
     [pe_positive |-> FALSE, pe_below_universe_mean |-> TRUE, fundamental_rules |-> <<>>],
     [pe_positive |-> TRUE, pe_below_universe_mean |-> FALSE, fundamental_rules |-> <<>>],
     [pe_positive |-> FALSE, pe_below_universe_mean |-> FALSE,
      fundamental_rules |-> <<[metric |-> "ps", operator |-> "lt_mean"]>>],
     [pe_positive |-> TRUE, pe_below_universe_mean |-> FALSE,
      fundamental_rules |-> <<[metric |-> "ps", operator |-> "lt_median"]>>]}

ScreenedFilters ==
    {None}
    \cup {[industry |-> "", cap |-> cap, ruleLogic |-> logic, customRules |-> rules] :
             cap \in {"", "large", "mid"}, logic \in {"AND", "OR"}, rules \in CustomRuleLists}
    \cup {[industry |-> industry, cap |-> "all", ruleLogic |-> "", customRules |-> <<PeUnder22>>] :
             industry \in {"Technology", "Banks"}}

ScreenedRequests ==
    [top_n : {1, 3}, fundamentals_lag_days : {1}, rules : ScreenedRules,
     weights : {[k \in ComponentNames |-> None]}, filters : ScreenedFilters,
     sector : {"Technology"}]

ScreenedInit ==
    /\ pc = "seed"
    /\ \E eps_b \in {R(2), R(-1)}, eps_c \in {R(1), R(-2)} :
           stock_statement = ScreenedStatements(eps_b, eps_c)
    /\ stock_prices = ScreenedPrices
    /\ stock_shares_outstanding = ScreenedShares
    /\ stock_split_events = {}
    /\ stock_dividend_events = {}
    /\ payload \in ScreenedRequests
    /\ runs = <<>>
    /\ as_of = 3
    /\ end_date = 5
    /\ cutoff = None /\ aligned = None
    /\ sym_splits = None /\ sym_dividends = None /\ sp = None /\ ep = None /\ row = None
    /\ RankIdle
    /\ RatiosIdle
    /\ ScreenIdle
    /\ CalendarIdle
    /\ ServiceIdle
    /\ RulesIdle

screenedFixed ==
    <<stock_statement, stock_prices, stock_shares_outstanding, stock_split_events,
      stock_dividend_events, as_of, end_date, cutoff, aligned, sym_splits, sym_dividends,
      sp, ep, row, rankVars, valuationVars, screenVars, calendarVars, max_attempts, attempt,
      last_exc, sleeps, query_outcome, lookups, rulesVars>>

\* lines 3137-3147: the response, of which the point and applied_filters are kept
backtest_response(request, point) ==
    [applied_filters |-> request.filters, data |-> <<point>>]

\* backtest_sector answers the request; payload.filters is copied, never written
\* (line 2816)
RunScreened ==
    /\ pc \in {"seed", "changed"}
    /\ \E run \in {rebalance_point(Database, ScreenedSymbols, payload, as_of, end_date)} :
           /\ runs' = Append(runs, run)
           /\ response' = backtest_response(payload, run.point)
    /\ pc' = IF pc = "seed" THEN "ran" ELSE "done"
    /\ UNCHANGED <<payload, screenedFixed>>

\* the client sends the request again with other built-in and custom rules
ChangeRules(rules, custom) ==
    /\ pc = "ran"
    /\ payload' = IF payload.filters = None THEN [payload EXCEPT !.rules = rules]
                  ELSE [payload EXCEPT !.rules = rules, !.filters.customRules = custom]
    /\ payload' # payload
    /\ pc' = "changed"
    /\ UNCHANGED <<runs, response, screenedFixed>>

ScreenedNext ==
    \/ RunScreened
    \/ \E rules \in ScreenedRules, custom \in CustomRuleLists : ChangeRules(rules, custom)

SpecScreened == ScreenedInit /\ [][ScreenedNext]_vars

\* the request a run answered
RequestOf(k) == IF k = Len(runs) /\ pc \in {"ran", "done"} THEN payload ELSE None

\* the cap a request asks for, "" when it has no filters
CapOf(request) == IF request.filters = None THEN "" ELSE request.filters.cap

\* the records of a run within the cap bucket of its request, in order
InBucket(run, cap) ==
    SelectSeq(run.records, LAMBDA rec : cap \in {"", "all"} \/ InCapRange(rec.market_cap, cap))

\* the known values of a ratio over a list of records
KnownValues(recs, name) ==
    SelectSeq([i \in DOMAIN recs |-> recs[i][name]], LAMBDA v : v # None)

MeanOf(values) == IF values = <<>> THEN None ELSE RDiv(RSum(values), R(Len(values)))

\* the middle value of a sorted list, or the mean of the two middle values
MedianOf(values) ==
    IF values = <<>> THEN None
    ELSE LET sorted == SortedAscending(values)
             n == Len(sorted)
         IN  IF n % 2 = 1 THEN sorted[(n + 1) \div 2]
             ELSE RDiv(RAdd(sorted[n \div 2], sorted[n \div 2 + 1]), R(2))

\* a record passes the built-in and fundamental rules against the thresholds
\* of a peer list
Admitted(rec, rules, bucket) ==
    /\ rules.pe_positive => (rec.pe # None /\ RLt(R(0), rec.pe))
    /\ (rules.pe_below_universe_mean /\ MeanOf(KnownValues(bucket, "pe")) # None)
           => (rec.pe # None /\ RLt(rec.pe, MeanOf(KnownValues(bucket, "pe"))))
    /\ \A i \in DOMAIN rules.fundamental_rules :
           LET rule == rules.fundamental_rules[i]
               known == KnownValues(bucket, rule.metric)
           IN  /\ rec[rule.metric] # None
               /\ rule.operator = "lt_mean"
                      => (known # <<>> /\ RLt(rec[rule.metric], MeanOf(known)))
               /\ rule.operator = "lt_median"
                      => (known # <<>> /\ RLt(rec[rule.metric], MedianOf(known)))

\* the percentile ranks of a record's ratios among the peers of a list
RanksAmong(rec, bucket) ==
    [k \in ComponentNames |->
        IF rec[k] # None /\ KnownValues(bucket, k) # <<>>
        THEN percentile_rank(rec[k], KnownValues(bucket, k), FALSE) ELSE None]

RecordOf(run, sym) == CHOOSE rec \in {run.records[i] : i \in DOMAIN run.records} : rec.symbol = sym

\* the thresholds and the peers of a run are those of the cap bucket
ThresholdsFromBucket(run, request) ==
    LET bucket == InBucket(run, CapOf(request))
    IN  /\ run.cap_filtered_records = bucket
        /\ run.point.mean_pe = MeanOf(KnownValues(bucket, "pe"))
        /\ run.filtered = SelectSeq(run.filtered_by_filters,
                                    LAMBDA rec : Admitted(rec, request.rules, bucket))
        /\ \A n \in DOMAIN run.point.selected :
               LET entry == run.point.selected[n]
                   ranks == RanksAmong(RecordOf(run, entry.symbol), bucket)
               IN  \A k \in ComponentNames :
                       entry.valuation_components[k] = ranks[k]

\* C26: the mean and median thresholds of the fundamental rules, mean_pe and
\* the peer lists of the scores are computed from the records of the cap
\* bucket alone; other custom or built-in rules change which records pass,
\* never the thresholds or the peers.
C26_ThresholdsFromCapBucket ==
    /\ (pc \in {"ran", "done"} /\ "note" \notin DOMAIN runs[Len(runs)].point)
           => ThresholdsFromBucket(runs[Len(runs)], payload)
    /\ (pc = "done" /\ "note" \notin DOMAIN runs[1].point)
           => /\ runs[2].cap_filtered_records = runs[1].cap_filtered_records
              /\ runs[2].point.mean_pe = runs[1].point.mean_pe

\* a second run whose custom rules keep fewer records than the cap bucket
\* holds, and whose admitted records differ from the first run's
C26_Witness ==
    /\ pc = "done"
    /\ Len(runs[2].filtered_by_filters) < Len(runs[2].cap_filtered_records)
    /\ runs[2].filtered # runs[1].filtered
    /\ runs[2].filtered # <<>>
    /\ runs[2].point.mean_pe # None
    /\ payload.rules.fundamental_rules # <<>>


\* the elements of a list, and the symbols of its entries
Elements(list) == {list[i] : i \in DOMAIN list}
SymbolsOf(list) == {list[i].symbol : i \in DOMAIN list}

\* C27: at every point that reaches selection the selected symbols are among
\* the rule-filtered records, those among filtered_by_filters and those among
\* the universe records; len(selected) = min(top_n, filtered_size) <=
\* filtered_size <= filtered_by_filters_size <= universe_size; no symbol is
\* selected twice.
C27_NestedSelections ==
    (pc \in {"ran", "done"} /\ "note" \notin DOMAIN runs[Len(runs)].point) =>
        LET run == runs[Len(runs)]
            point == run.point
            smaller(a, b) == IF a < b THEN a ELSE b
        IN  /\ SymbolsOf(point.selected) \subseteq SymbolsOf(run.filtered)
            /\ Elements(run.filtered) \subseteq Elements(run.filtered_by_filters)
            /\ Elements(run.filtered_by_filters) \subseteq Elements(run.records)
            /\ point.universe_size = Len(run.records)
            /\ point.filtered_by_filters_size = Len(run.filtered_by_filters)
            /\ point.filtered_size = Len(run.filtered)
            /\ Len(point.selected) = smaller(payload.top_n, point.filtered_size)
            /\ point.filtered_size <= point.filtered_by_filters_size
            /\ point.filtered_by_filters_size <= point.universe_size
            /\ \A i, j \in DOMAIN point.selected :
                   point.selected[i].symbol = point.selected[j].symbol => i = j

\* a point where each list is strictly smaller than the one it is taken from
C27_Witness ==
    /\ pc \in {"ran", "done"}
    /\ "note" \notin DOMAIN runs[Len(runs)].point
    /\ LET point == runs[Len(runs)].point
       IN  /\ 0 < Len(point.selected)
           /\ Len(point.selected) < point.filtered_size
           /\ point.filtered_size < point.filtered_by_filters_size
           /\ point.filtered_by_filters_size < point.universe_size


\* C28: with pe_below_universe_mean enabled, every record admitted at a point
\* has a defined pe strictly below the mean pe of the cap-filtered peers,
\* whatever pe_positive and the screener filters are.
C28_AdmittedBelowMean ==
    (/\ pc \in {"ran", "done"}
     /\ "note" \notin DOMAIN runs[Len(runs)].point
     /\ payload.rules.pe_below_universe_mean) =>
        LET run == runs[Len(runs)]
            mean == MeanOf(KnownValues(InBucket(run, CapOf(payload)), "pe"))
        IN  \A i \in DOMAIN run.filtered :
                /\ run.filtered[i].pe # None
                /\ mean # None
                /\ RLt(run.filtered[i].pe, mean)


\* the ratio of a record that a supported screener metric reads
FieldOfMetric ==
    (<<"peRatioTTM">> :> "pe") @@ (<<"priceToSalesRatioTTM">> :> "ps")
    @@ (<<"priceToBookRatioTTM">> :> "pb") @@ (<<"enterpriseValueOverEBITTTM">> :> "ev_ebit")
    @@ (<<"enterpriseValueOverEBITDATTM">> :> "ev_ebitda")
    @@ (<<"enterpriseValueToSalesTTM">> :> "ev_sales") @@ (<<"marketCap">> :> "market_cap")

\* a record satisfies a rule on a supported metric (the operators of CustomRuleLists)
RuleHolds(rec, rule) ==
    LET value == rec[FieldOfMetric[rule.metric]]
    IN  /\ value # None
        /\ rule.operator = "<" => RLt(value, rule.value.v)
        /\ rule.operator = ">=" => RLe(rule.value.v, value)

\* the enabled rules of a request that are on supported metrics
RemainingRules(screen) ==
    {i \in DOMAIN screen.customRules :
        /\ screen.customRules[i].enabled
        /\ screen.customRules[i].metric \in DOMAIN FieldOfMetric}

\* the record passes the industry, the cap and the remaining rules of the filters
PassesRemaining(rec, screen) ==
    /\ screen.industry # "" => (rec.industry = screen.industry \/ rec.sector = screen.industry)
    /\ screen.cap \in {"", "all"} \/ InCapRange(rec.market_cap, screen.cap)
    /\ \/ RemainingRules(screen) = {}
       \/ /\ screen.ruleLogic = "OR"
          /\ \E i \in RemainingRules(screen) : RuleHolds(rec, screen.customRules[i])
       \/ /\ screen.ruleLogic # "OR"
          /\ \A i \in RemainingRules(screen) : RuleHolds(rec, screen.customRules[i])

UnsupportedRules(screen) ==
    {i \in DOMAIN screen.customRules : screen.customRules[i].metric \notin DOMAIN FieldOfMetric}

\* C29: a custom rule on a metric outside the seven supported ones is removed
\* before filtering: under AND and under OR filtered_by_filters is exactly the
\* records that pass the industry, the cap and the remaining rules; the
\* rule's metric is listed in unsupported_filter_metrics of every point that
\* reaches filtering; the request's filters are left as sent, and
\* applied_filters echoes them with the unsupported rules.
C29_UnsupportedRulesDropped ==
    (pc \in {"ran", "done"} /\ payload.filters # None) =>
        LET run == runs[Len(runs)]
            screen == payload.filters
        IN  /\ response.applied_filters = screen
            /\ "note" \notin DOMAIN run.point =>
                   /\ run.filtered_by_filters =
                          SelectSeq(run.records, LAMBDA rec : PassesRemaining(rec, screen))
                   /\ \A i \in UnsupportedRules(screen) :
                          screen.customRules[i].metric \in run.point.unsupported_filter_metrics
                   /\ \A name \in run.point.unsupported_filter_metrics :
                          \E i \in UnsupportedRules(screen) : screen.customRules[i].metric = name

\* a point filtered under AND by a supported rule beside an enabled
\* unsupported one, which keeps some records and drops others
C29_Witness ==
    /\ pc \in {"ran", "done"}
    /\ payload.filters # None
    /\ payload.filters.ruleLogic = "AND"
    /\ "note" \notin DOMAIN runs[Len(runs)].point
    /\ \E i \in UnsupportedRules(payload.filters) : payload.filters.customRules[i].enabled
    /\ RemainingRules(payload.filters) # {}
    /\ runs[Len(runs)].filtered_by_filters # <<>>
    /\ Len(runs[Len(runs)].filtered_by_filters) < Len(runs[Len(runs)].records)
    /\ runs[Len(runs)].point.unsupported_filter_metrics # {}
    /\ \E i \in DOMAIN response.applied_filters.customRules :
           response.applied_filters.customRules[i].metric \notin supported


-----------------------------------------------------------------------------
(* SpecRules: main._load_backtest_rules_cache and main.get_backtest_rules
   (lines 81-87 and 3150-3246).  A precomputed rule is a row [rule_id, sector,
   cap, holding_years, train_avg_excess, test_win_rate]; a sorted list of
   distinct values (sectors, caps, holding_years) is written as their set.
   An absent query parameter is "" for a text and 0 for a number, which the
   code tests the same way as None. *)

MaxRuleRows == 3
MaxServed == 2

\* the rows a file may hold at a position: train_avg_excess may tie or be
\* null, test_win_rate grows with the position
RuleRowsAt(i) ==
    {[rule_id |-> i, sector |-> IF i % 2 = 1 THEN "Technology" ELSE "Energy",
      cap |-> "large", holding_years |-> 1, train_avg_excess |-> x,
      test_win_rate |-> R(i)] : x \in {R(1), R(2), None}}

\* the file is missing (None) or holds a list of rows
RuleFiles ==
    {None} \cup UNION {{f \in [1..n -> UNION {RuleRowsAt(i) : i \in 1..n}] :
                           \A i \in 1..n : f[i] \in RuleRowsAt(i)} : n \in 0..MaxRuleRows}

RuleQueries ==
    [sector : {"", "Technology"}, cap : {"all", "large"}, holding_years : {0},
     sort_by : {"train_avg_excess", "test_win_rate", "score"}, sort_dir : {"desc", "ASC"},
     page : {1, 2}, page_size : {2}]

\* lines 3212-3218
valid_sort_fields ==
    {"rule_id", "sector", "cap", "holding_years", "train_avg_portfolio",
     "train_avg_benchmark", "train_avg_excess", "train_win_rate", "test_avg_portfolio",
     "test_avg_benchmark", "test_avg_excess", "test_win_rate"}

\* r.get(name)
row_get(r, name) == IF name \in DOMAIN r THEN r[name] ELSE None

\* lines 3153-3181: the cache after the load
_load_backtest_rules_cache(cache, file) ==
    IF cache.loaded THEN cache
    ELSE IF file = None THEN [cache EXCEPT !.loaded = TRUE]
    ELSE [data |-> file,
          sectors |-> {file[i].sector : i \in DOMAIN file},
          caps |-> {file[i].cap : i \in DOMAIN file},
          holding_years |-> {file[i].holding_years : i \in DOMAIN file},
          loaded |-> TRUE]

\* lines 3222-3228: the sort keys compared; a null value is -inf when reverse
\* and +inf otherwise
sort_key_less(a, b, sort_by, reverse) ==
    LET va == row_get(a, sort_by)
        vb == row_get(b, sort_by)
    IN  IF reverse
        THEN vb # None /\ (va = None \/ RLt(va, vb))
        ELSE va # None /\ (vb = None \/ RLt(va, vb))

\* line 3228: list.sort, stable in both directions
RECURSIVE sorted_rows(_, _, _)
sorted_rows(rows, sort_by, reverse) ==
    IF rows = <<>> THEN <<>>
    ELSE LET rest == sorted_rows(Tail(rows), sort_by, reverse)
             first(x) == IF reverse THEN sort_key_less(Head(rows), x, sort_by, reverse)
                         ELSE sort_key_less(x, Head(rows), sort_by, reverse)
         IN  SelectSeq(rest, first) \o <<Head(rows)>> \o SelectSeq(rest, LAMBDA x : ~first(x))

\* lines 3204-3210: some filter builds a new list
filters_given(query) ==
    query.sector # "" \/ (query.cap # "" /\ query.cap # "all") \/ query.holding_years # 0

\* lines 3203-3210
filtered_rows(data, query) ==
    SelectSeq(data, LAMBDA r :
        /\ query.sector # "" => row_get(r, "sector") = query.sector
        /\ (query.cap # "" /\ query.cap # "all") => row_get(r, "cap") = query.cap
        /\ query.holding_years # 0 => row_get(r, "holding_years") = query.holding_years)

\* lines 3219-3220
sort_field(query) ==
    IF query.sort_by \in valid_sort_fields THEN query.sort_by ELSE "train_avg_excess"

\* lower() of the two spellings of RuleQueries
lower(text) == IF text = "ASC" THEN "asc" ELSE text

\* lines 3203-3228: filtered after filtered.sort(...)
sorted_filtered(data, query) ==
    sorted_rows(filtered_rows(data, query), sort_field(query), lower(query.sort_dir) = "desc")

\* lines 3230-3244
rules_page(cache, rows, query) ==
    LET start == (query.page - 1) * query.page_size
        end == start + query.page_size
    IN  [results |-> SubSeq(rows, start + 1, IF end < Len(rows) THEN end ELSE Len(rows)),
         total |-> Len(rows), page |-> query.page, page_size |-> query.page_size,
         sectors |-> cache.sectors, caps |-> cache.caps,
         holding_years_options |-> cache.holding_years]

\* lines 81-87
RulesInit ==
    /\ pc = "serving"
    /\ backtest_rule_search \in RuleFiles
    /\ _BACKTEST_RULES_CACHE =
           [data |-> <<>>, sectors |-> {}, caps |-> {}, holding_years |-> {}, loaded |-> FALSE]
    /\ rules_query = None
    /\ rules_response = None
    /\ served = 0
    /\ RankIdle
    /\ RatiosIdle
    /\ ReturnIdle
    /\ StatementIdle
    /\ MarketIdle
    /\ ScreenIdle
    /\ CalendarIdle
    /\ ServiceIdle

\* get_backtest_rules: without a filter, filtered is the cached list itself and
\* filtered.sort sorts the cache in place (lines 3203 and 3228)
GetBacktestRules(query) ==
    /\ pc = "serving"
    /\ served < MaxServed
    /\ LET loaded_cache == _load_backtest_rules_cache(_BACKTEST_RULES_CACHE, backtest_rule_search)
           rows == sorted_filtered(loaded_cache.data, query)
       IN  /\ _BACKTEST_RULES_CACHE' =
                  IF filters_given(query) THEN loaded_cache
                  ELSE [loaded_cache EXCEPT !.data = rows]
           /\ rules_response' = rules_page(loaded_cache, rows, query)
    /\ rules_query' = query
    /\ served' = served + 1
    /\ UNCHANGED <<pc, backtest_rule_search, rankVars, valuationVars, returnVars, statementVars,
                   marketVars, screenVars, calendarVars, serviceVars>>

RulesNext == \E query \in RuleQueries : GetBacktestRules(query)

SpecRules == RulesInit /\ [][RulesNext]_vars

\* the list the cache holds once the file is loaded
LoadedRows == IF backtest_rule_search = None THEN <<>> ELSE backtest_rule_search

\* what a process that has served nothing else answers to the query
FirstAnswer(query) ==
    LET fresh == [data |-> LoadedRows,
                  sectors |-> {LoadedRows[i].sector : i \in DOMAIN LoadedRows},
                  caps |-> {LoadedRows[i].cap : i \in DOMAIN LoadedRows},
                  holding_years |-> {LoadedRows[i].holding_years : i \in DOMAIN LoadedRows}]
    IN  rules_page(fresh, sorted_filtered(LoadedRows, query), query)

\* C30: get_backtest_rules never changes the precomputed-rules cache: after
\* any sequence of requests the cached list has the elements of the loaded
\* file in the same order, and the response to a request is the one a process
\* that served nothing before would give, also with ties on the sort field
\* and without a filter.
C30_CacheNeverChanges ==
    served > 0 =>
        /\ _BACKTEST_RULES_CACHE.data = LoadedRows
        /\ rules_response = FirstAnswer(rules_query)

====
